---- MODULE Spec2Model ----
(***************************************************************************)
(* Model of the Hajj package recommender (src/src/recommendationEngine.ts  *)
(* and its callers), of its local storage module (favourites, package      *)
(* overrides, user packages and the merge of the catalog) and of the way   *)
(* the App builds the catalog (XLSX loader, CSV import, Add and Edit       *)
(* forms) and shows the recommendations.                                   *)
(*                                                                         *)
(* Numbers.  Money is counted in halalas (1/100 SAR), so that the camp     *)
(* upgrade fee 4673.42 SAR is the integer 467342.  Scores are exact        *)
(* rationals <<n, d>> with d > 0 in lowest terms; JavaScript computes them *)
(* in IEEE doubles, which differ from the exact value by rounding error    *)
(* far below the 0.001 resolution of totalScore.  Where the exact total    *)
(* lies halfway between two thousandths the double may fall on either      *)
(* side; the properties below allow totalScore either neighbour.           *)
(* Timestamps are counted in days (Date.parse of a date-only ISO string is *)
(* UTC midnight, a whole multiple of 86400000 ms).                         *)
(*                                                                         *)
(* Optional values.  An optional number is <<>> (undefined) or <<n>>; an   *)
(* optional string is the value Undefined or the string.                   *)
(***************************************************************************)
EXTENDS Integers, Sequences, FiniteSets, TLC

VARIABLES
    packages,      \* the catalog array handed to recommendPackages
    prefs,         \* the preference record handed to recommendPackages
    results,       \* the list returned by the latest call
    calls,         \* number of calls made so far
    log,           \* history: the inputs and the result of every call so far
    favourites,    \* localStorage item hajj_pkg_favourites_v1
    overrides,     \* localStorage item hajj_pkg_overrides_v1
    userPackages,  \* localStorage item hajj_user_packages_v1
    preloaded,     \* the preloaded list the App hands to mergePackages
    merged,        \* what the latest mergePackages call returned
    ret,           \* the latest call of the storage module and what it returned
    trail,         \* history: per package id, whether its override was saved
                   \* or cleared last
    loadingPackages,   \* App state: the preloaded load is still pending
    csv,               \* the handleCsvFile call in flight, if any
    selectedProviders  \* App state: the providers ticked on the
                       \* recommendations screen

engineVars == <<packages, prefs, results, calls, log>>
storeVars == <<favourites, overrides, userPackages, preloaded, merged, ret, trail>>
appVars == <<loadingPackages, csv, selectedProviders>>
vars == <<engineVars, storeVars, appVars>>

(***************************************************************************)
(* Arithmetic helpers                                                      *)
(***************************************************************************)
Abs(x) == IF x < 0 THEN -x ELSE x

RECURSIVE GCD(_, _)
GCD(a, b) == IF b = 0 THEN a ELSE GCD(b, a % b)

\* The rational n/d (d > 0) in lowest terms.
Rat(n, d) ==
    LET g == GCD(Abs(n), d)
    IN  IF g = 0 THEN <<0, 1>> ELSE <<n \div g, d \div g>>

RZero == <<0, 1>>
ROne == <<1, 1>>

RAdd(a, b) ==
    LET g == GCD(a[2], b[2])
        l == (a[2] \div g) * b[2]
    IN  Rat(a[1] * (l \div a[2]) + b[1] * (l \div b[2]), l)

RNeg(a) == <<-a[1], a[2]>>

RSub(a, b) == RAdd(a, RNeg(b))

RMul(a, b) ==
    LET g1 == GCD(Abs(a[1]), b[2])
        g2 == GCD(Abs(b[1]), a[2])
        h1 == IF g1 = 0 THEN 1 ELSE g1
        h2 == IF g2 = 0 THEN 1 ELSE g2
    IN  Rat((a[1] \div h1) * (b[1] \div h2), (a[2] \div h2) * (b[2] \div h1))

RLt(a, b) == a[1] * b[2] < b[1] * a[2]
RLe(a, b) == a[1] * b[2] <= b[1] * a[2]
RMax(a, b) == IF RLt(a, b) THEN b ELSE a
RMin(a, b) == IF RLt(b, a) THEN b ELSE a

(***************************************************************************)
(* Optional values                                                         *)
(***************************************************************************)
Undefined == "undefined"
None == <<>>
Some(n) == <<n>>
IsNum(x) == x # <<>>
Val(x) == x[1]

\* JavaScript truthiness of an optional string and of an optional number.
TruthyStr(s) == s # Undefined /\ s # ""
TruthyNum(x) == IsNum(x) /\ Val(x) # 0

(***************************************************************************)
(* Domain enums (src/src/models.ts)                                        *)
(***************************************************************************)
OccupancyType == {"double", "triple", "quad"}
StayLocation == {"madinah", "makkah", "aziziya"}
MakkahZone == {"A", "B", "C", "M"}
MinaCamp == {"majr", "muaisim"}

\* MINA_CAPACITY: Record<MinaCamp, number>; a camp outside the table reads
\* as undefined.
MINA_CAPACITY(camp) ==
    IF camp = "majr" THEN Some(5000)
    ELSE IF camp = "muaisim" THEN Some(44000)
    ELSE None

\* Majr AlKabsh camp upgrade fee per person: 4673.42 SAR, in halalas.
MAJR_UPGRADE_FEE_SAR == 467342

(***************************************************************************)
(* Helpers of the engine                                                   *)
(***************************************************************************)
ZoneOrder == <<"A", "B", "C", "M">>

\* Array.prototype.indexOf on ZoneOrder: -1 when absent.
IndexOf(z) ==
    IF \E i \in 1..Len(ZoneOrder) : ZoneOrder[i] = z
    THEN (CHOOSE i \in 1..Len(ZoneOrder) : ZoneOrder[i] = z) - 1
    ELSE -1

\* A zone score that loses 0.5 per step.
zoneScore_halfPerStep(preferred, actual) ==
    IF preferred = actual THEN ROne
    ELSE RMax(RZero, RSub(ROne, Rat(Abs(IndexOf(preferred) - IndexOf(actual)), 2)))

zoneScore(preferred, actual) ==
    IF preferred = actual THEN ROne
    ELSE LET p == IndexOf(preferred)
             a == IndexOf(actual)
         IN  IF p = -1 \/ a = -1 THEN RZero
             ELSE RMax(RZero, RSub(ROne, Rat(Abs(p - a), 4)))

campScore(preferred, actual) == IF preferred = actual THEN ROne ELSE RZero

\* A date string is [txt |-> "empty"] (the empty string), [txt |-> "garbage"]
\* (Date.parse gives NaN) or [txt |-> "iso", day |-> n] (a date that parses to
\* day n after the epoch).  An absent date is [txt |-> "undefined"].
parseISO(d) ==
    IF d.txt = "undefined" \/ d.txt = "empty" THEN None
    ELSE IF d.txt = "garbage" THEN None
    ELSE Some(d.day)

TruthyDate(d) == d.txt # "undefined" /\ d.txt # "empty"

majrFee(pkg) == IF pkg.minaCamp = "majr" THEN MAJR_UPGRADE_FEE_SAR ELSE 0

\* pkg.upgradeFees?.[loc]?.[tier]: undefined when the fee table, the location
\* or the fee is absent.
FeeAt(pkg, loc, tier) ==
    IF pkg.upgradeFees = <<>> THEN None ELSE pkg.upgradeFees[1][loc][tier]

\* a ?? b
Nullish(a, b) == IF IsNum(a) THEN a ELSE b

occupancyAvailable(pkg, occ) ==
    IF occ = "quad" THEN TRUE
    ELSE LET fee == IF occ = "double"
                    THEN Nullish(FeeAt(pkg, "makkah", "double"),
                           Nullish(FeeAt(pkg, "madinah", "double"),
                                   FeeAt(pkg, "aziziya", "double")))
                    ELSE Nullish(FeeAt(pkg, "makkah", "triple"),
                           Nullish(FeeAt(pkg, "madinah", "triple"),
                                   FeeAt(pkg, "aziziya", "triple")))
         IN  IsNum(fee) /\ Val(fee) > 0

\* const get = (n?: number) => (typeof n === 'number' && n > 0 ? n : 0)
get(n) == IF IsNum(n) /\ Val(n) > 0 THEN Val(n) ELSE 0

\* priceForOccupancy testing `base < 0` in place of `base <= 0`.
priceForOccupancy_zeroBase(pkg, occ) ==
    LET base == pkg.basePriceSAR
        campUpgrade == majrFee(pkg)
    IN  IF base < 0 THEN None
        ELSE IF occ = "quad" THEN Some(base + campUpgrade)
        ELSE LET total == get(FeeAt(pkg, "makkah", occ))
                          + get(FeeAt(pkg, "madinah", occ))
                          + get(FeeAt(pkg, "aziziya", occ))
             IN  IF total > 0 THEN Some(base + campUpgrade + total) ELSE None

\* The camp upgrade left out of the triple and double prices.
priceForOccupancy_surchargeQuadOnly(pkg, occ) ==
    LET base == pkg.basePriceSAR
    IN  IF base = 0 \/ base <= 0 THEN None
        ELSE IF occ = "quad" THEN Some(base + majrFee(pkg))
        ELSE LET total == get(FeeAt(pkg, "makkah", occ))
                          + get(FeeAt(pkg, "madinah", occ))
                          + get(FeeAt(pkg, "aziziya", occ))
             IN  IF total > 0 THEN Some(base + total) ELSE None

priceForOccupancy(pkg, occ) ==
    LET base == pkg.basePriceSAR
        campUpgrade == majrFee(pkg)
    IN  IF base = 0 \/ base <= 0 THEN None
        ELSE IF occ = "quad" THEN Some(base + campUpgrade)
        ELSE IF pkg.upgradeFees = <<>> THEN None
        ELSE IF occ = "double"
        THEN LET total == get(FeeAt(pkg, "makkah", "double"))
                          + get(FeeAt(pkg, "madinah", "double"))
                          + get(FeeAt(pkg, "aziziya", "double"))
             IN  IF total > 0 THEN Some(base + campUpgrade + total) ELSE None
        ELSE LET total == get(FeeAt(pkg, "makkah", "triple"))
                          + get(FeeAt(pkg, "madinah", "triple"))
                          + get(FeeAt(pkg, "aziziya", "triple"))
             IN  IF total > 0 THEN Some(base + campUpgrade + total) ELSE None

(***************************************************************************)
(* Scoring                                                                 *)
(***************************************************************************)
\* pkg.hotels[i]?.city for the first and the last stay entry.
FirstStayOf(pkg) == IF Len(pkg.hotels) = 0 THEN Undefined ELSE pkg.hotels[1]
LastStayOf(pkg) ==
    IF Len(pkg.hotels) = 0 THEN Undefined ELSE pkg.hotels[Len(pkg.hotels)]

\* Each Add* is one `if` block of scorePreferences: it maps the running
\* {score, max} to the value after the block.
AddProvider(pkg, pr, acc) ==
    IF TruthyStr(pr.provider) /\ pr.provider # "any"
    THEN [score |-> IF pkg.provider = pr.provider
                    THEN RAdd(acc.score, ROne) ELSE acc.score,
          max |-> acc.max + 1]
    ELSE acc

AddFirstStay(pkg, pr, acc) ==
    IF TruthyStr(pr.firstStay) /\ pr.firstStay # "any"
    THEN [score |-> IF FirstStayOf(pkg) = pr.firstStay
                    THEN RAdd(acc.score, ROne) ELSE acc.score,
          max |-> acc.max + 1]
    ELSE acc

AddLastStay(pkg, pr, acc) ==
    IF TruthyStr(pr.lastStay) /\ pr.lastStay # "any"
    THEN [score |-> IF LastStayOf(pkg) = pr.lastStay
                    THEN RAdd(acc.score, ROne) ELSE acc.score,
          max |-> acc.max + 1]
    ELSE acc

AddZone(pkg, pr, acc) ==
    IF TruthyStr(pr.makkahZone) /\ pr.makkahZone # "any"
    THEN [score |-> RAdd(acc.score, zoneScore(pr.makkahZone, pkg.makkahZone)),
          max |-> acc.max + 1]
    ELSE acc

AddCamp(pkg, pr, acc) ==
    IF TruthyStr(pr.minaCamp) /\ pr.minaCamp # "any"
    THEN [score |-> RAdd(acc.score, campScore(pr.minaCamp, pkg.minaCamp)),
          max |-> acc.max + 1]
    ELSE acc

AddShifting(pkg, pr, acc) ==
    IF TruthyStr(pr.shifting) /\ pr.shifting # "any"
    THEN LET matches == \/ (pr.shifting = "shifting" /\ pkg.isShifting)
                        \/ (pr.shifting = "non-shifting" /\ ~pkg.isShifting)
         IN  [score |-> IF matches THEN RAdd(acc.score, ROne) ELSE acc.score,
              max |-> acc.max + 1]
    ELSE acc

AddDateWindow(pkg, pr, acc) ==
    IF TruthyDate(pr.startDate) /\ TruthyDate(pr.endDate)
    THEN LET uStart == parseISO(pr.startDate)
             uEnd == parseISO(pr.endDate)
             pStart == parseISO(pkg.startDate)
             pEnd == parseISO(pkg.endDate)
         IN  IF TruthyNum(uStart) /\ TruthyNum(uEnd)
                /\ TruthyNum(pStart) /\ TruthyNum(pEnd)
             THEN LET within == Val(pStart) >= Val(uStart)
                                /\ Val(pEnd) <= Val(uEnd)
                      a == Abs(Val(pStart) - Val(uStart))
                      b == Abs(Val(pEnd) - Val(uEnd))
                      days == IF a < b THEN a ELSE b
                  IN  [score |-> IF within THEN RAdd(acc.score, ROne)
                                 ELSE RAdd(acc.score,
                                        RMax(RZero, RSub(ROne, Rat(days, 14)))),
                       max |-> acc.max + 1]
             ELSE [score |-> acc.score, max |-> acc.max + 1]
    ELSE acc

\* The duration block without the floor at 0.
AddDuration_noFloor(pkg, pr, acc) ==
    IF TruthyNum(pr.durationDays) /\ Val(pr.durationDays) > 0
    THEN LET diff == Abs(pkg.durationDays - Val(pr.durationDays))
         IN  [score |-> RAdd(acc.score, RSub(ROne, Rat(diff, 3))),
              max |-> acc.max + 1]
    ELSE acc

AddDuration(pkg, pr, acc) ==
    IF TruthyNum(pr.durationDays) /\ Val(pr.durationDays) > 0
    THEN LET diff == Abs(pkg.durationDays - Val(pr.durationDays))
         IN  [score |-> RAdd(acc.score, RMax(RZero, RSub(ROne, Rat(diff, 3)))),
              max |-> acc.max + 1]
    ELSE acc

scorePreferences(pkg, pr) ==
    AddDuration(pkg, pr,
      AddDateWindow(pkg, pr,
        AddShifting(pkg, pr,
          AddCamp(pkg, pr,
            AddZone(pkg, pr,
              AddLastStay(pkg, pr,
                AddFirstStay(pkg, pr,
                  AddProvider(pkg, pr, [score |-> RZero, max |-> 0]))))))))

\* The value score without the 0.6 of the non-premium camp.
scoreValueQuality_noMuaisim(pkg) ==
    LET camp == IF pkg.minaCamp = "majr" THEN ROne ELSE RZero
        zone == IF pkg.makkahZone = "A" THEN ROne
                ELSE IF pkg.makkahZone = "B" THEN Rat(7, 10)
                ELSE IF pkg.makkahZone = "C" THEN Rat(2, 5)
                ELSE IF pkg.makkahZone = "M" THEN Rat(1, 5)
                ELSE RZero
        shift == IF pkg.isShifting THEN Rat(1, 2) ELSE RZero
        stays == IF Len(pkg.hotels) >= 2 THEN Rat(1, 5) ELSE RZero
        flight == IF TruthyNum(pkg.flightPriceSAR) /\ Val(pkg.flightPriceSAR) > 0
                  THEN Rat(3, 20) ELSE RZero
        score == RAdd(RAdd(RAdd(RAdd(camp, zone), shift), stays), flight)
    IN  RMin(RMul(score, Rat(1, 3)), ROne)

\* The sum returned without the division by 3.
scoreValueQuality_undivided(pkg) ==
    LET camp == IF pkg.minaCamp = "majr" THEN ROne
                ELSE IF pkg.minaCamp = "muaisim" THEN Rat(3, 5)
                ELSE RZero
        zone == IF pkg.makkahZone = "A" THEN ROne
                ELSE IF pkg.makkahZone = "B" THEN Rat(7, 10)
                ELSE IF pkg.makkahZone = "C" THEN Rat(2, 5)
                ELSE IF pkg.makkahZone = "M" THEN Rat(1, 5)
                ELSE RZero
        shift == IF pkg.isShifting THEN Rat(1, 2) ELSE RZero
        stays == IF Len(pkg.hotels) >= 2 THEN Rat(1, 5) ELSE RZero
        flight == IF TruthyNum(pkg.flightPriceSAR) /\ Val(pkg.flightPriceSAR) > 0
                  THEN Rat(3, 20) ELSE RZero
    IN  RMin(RAdd(RAdd(RAdd(RAdd(camp, zone), shift), stays), flight), ROne)

scoreValueQuality(pkg) ==
    LET camp == IF pkg.minaCamp = "majr" THEN ROne
                ELSE IF pkg.minaCamp = "muaisim" THEN Rat(3, 5)
                ELSE RZero
        zone == IF pkg.makkahZone = "A" THEN ROne
                ELSE IF pkg.makkahZone = "B" THEN Rat(7, 10)
                ELSE IF pkg.makkahZone = "C" THEN Rat(2, 5)
                ELSE IF pkg.makkahZone = "M" THEN Rat(1, 5)
                ELSE RZero
        shift == IF pkg.isShifting THEN Rat(1, 2) ELSE RZero
        stays == IF Len(pkg.hotels) >= 2 THEN Rat(1, 5) ELSE RZero
        flight == IF TruthyNum(pkg.flightPriceSAR) /\ Val(pkg.flightPriceSAR) > 0
                  THEN Rat(3, 20) ELSE RZero
        score == RAdd(RAdd(RAdd(RAdd(camp, zone), shift), stays), flight)
    IN  RMin(RMul(score, Rat(1, 3)), ROne)

\* A budget fit without the floor of 0.6 under the target: the cheaper, the
\* lower.
scoreBudgetFit_noFloor(pricePerPersonSAR, pr) ==
    LET heads == IF pr.hujjajCount > 1 THEN pr.hujjajCount ELSE 1
    IN  IF pr.budgetAmount <= 0 THEN RZero
        ELSE LET ratio == Rat(pricePerPersonSAR * heads, pr.budgetAmount)
             IN  IF RLe(ratio, ROne) THEN ratio
                 ELSE RMax(RZero, RSub(ROne, RSub(ratio, ROne)))

\* A budget fit that divides by |hujjajCount| (by 1 when it is 0).
scoreBudgetFit_absHeadcount(pricePerPersonSAR, pr) ==
    LET heads == IF pr.hujjajCount = 0 THEN 1 ELSE Abs(pr.hujjajCount)
    IN  IF pr.budgetAmount <= 0 THEN RZero
        ELSE LET ratio == Rat(pricePerPersonSAR * heads, pr.budgetAmount)
             IN  IF RLe(ratio, ROne) THEN RMax(Rat(3, 5), ratio)
                 ELSE RMax(RZero, RSub(ROne, RSub(ratio, ROne)))

\* target = budgetAmount / max(1, hujjajCount) is <= 0 exactly when
\* budgetAmount <= 0; ratio = price / target = price * heads / budgetAmount.
scoreBudgetFit(pricePerPersonSAR, pr) ==
    LET heads == IF pr.hujjajCount > 1 THEN pr.hujjajCount ELSE 1
    IN  IF pr.budgetAmount <= 0 THEN RZero
        ELSE LET ratio == Rat(pricePerPersonSAR * heads, pr.budgetAmount)
             IN  IF RLe(ratio, ROne) THEN RMax(Rat(3, 5), ratio)
                 ELSE RMax(RZero, RSub(ROne, RSub(ratio, ROne)))

\* The penalty keyed on the capacity table alone: every listed camp pays it.
scarcityPenalty_everyCamp(pkg) ==
    IF ~TruthyNum(MINA_CAPACITY(pkg.minaCamp)) THEN RZero ELSE Rat(3, 20)

\* A penalty that turns into a bonus of 0.05 for the other camp.
scarcityPenalty_rewardsOthers(pkg) ==
    IF pkg.minaCamp = "majr" THEN Rat(3, 20) ELSE <<-1, 20>>

scarcityPenalty(pkg) ==
    LET cap == MINA_CAPACITY(pkg.minaCamp)
    IN  IF ~TruthyNum(cap) THEN RZero
        ELSE IF pkg.minaCamp = "majr" THEN Rat(3, 20) ELSE RZero

(***************************************************************************)
(* recommendPackages                                                       *)
(***************************************************************************)
\* Number(total.toFixed(3)), in thousandths: the nearest multiple of 0.001,
\* a tie going away from zero (toFixed rounds the magnitude half up).
RoundMagnitude(m) ==
    LET q == m[1] \div m[2]
        r == m[1] % m[2]
    IN  q + (IF 2 * r >= m[2] THEN 1 ELSE 0)

toFixed3(total) ==
    LET m == RMul(total, <<1000, 1>>)
    IN  IF m[1] >= 0 THEN RoundMagnitude(m) ELSE -RoundMagnitude(RNeg(m))

\* The requested tier ignored: every candidate priced for quad.
occFor_alwaysQuad(pr) == "quad"

\* Lines 209-212: the tier the candidate is priced for.
occFor(pr) ==
    IF TruthyStr(pr.occupancy) /\ pr.occupancy # "any" THEN pr.occupancy
    ELSE "quad"

\* Lines 213 and 216-217: the two `continue` statements.
Excluded(pkg, pr) ==
    LET occ == occFor(pr)
        price == priceForOccupancy(pkg, occ)
    IN  \/ ~occupancyAvailable(pkg, occ)
        \/ ~TruthyNum(price)
        \/ Val(price) <= 0

\* The scarcity penalty added instead of subtracted.
totalOf_penaltyAdded(prefScore, valueScore, budgetScore, scarcity) ==
    RAdd(RAdd(RAdd(RMul(prefScore, Rat(3, 5)), RMul(valueScore, Rat(1, 4))),
              RMul(budgetScore, Rat(3, 20))),
         scarcity)

\* Line 225.
totalOf(prefScore, valueScore, budgetScore, scarcity) ==
    RSub(RAdd(RAdd(RMul(prefScore, Rat(3, 5)), RMul(valueScore, Rat(1, 4))),
              RMul(budgetScore, Rat(3, 20))),
         scarcity)

\* The reasons pushed in another order: the budget note first, the two
\* premium-camp notices swapped.
reasonsOf_budgetFirst(pkg, prefScore, budgetScore) ==
    (IF RLt(Rat(17, 20), budgetScore)
     THEN <<"Close to your target budget">> ELSE <<>>)
    \o (IF RLt(Rat(3, 4), prefScore)
        THEN <<"Strong match to your preferences">> ELSE <<>>)
    \o (IF pkg.minaCamp = "majr"
        THEN <<"Majr AlKabsh (high quality, very limited capacity)",
               "Majr AlKabsh (includes +4673.42 SAR pp camp upgrade)">>
        ELSE <<>>)
    \o (IF pkg.minaCamp = "muaisim" THEN <<"Al Muaisim (high capacity)">> ELSE <<>>)
    \o (IF pkg.isShifting
        THEN <<"Shifting structure (often better value)">> ELSE <<>>)

\* Lines 227-235.
reasonsOf(pkg, prefScore, budgetScore) ==
    (IF RLt(Rat(3, 4), prefScore)
     THEN <<"Strong match to your preferences">> ELSE <<>>)
    \o (IF pkg.minaCamp = "majr"
        THEN <<"Majr AlKabsh (includes +4673.42 SAR pp camp upgrade)",
               "Majr AlKabsh (high quality, very limited capacity)">>
        ELSE <<>>)
    \o (IF pkg.minaCamp = "muaisim" THEN <<"Al Muaisim (high capacity)">> ELSE <<>>)
    \o (IF pkg.isShifting
        THEN <<"Shifting structure (often better value)">> ELSE <<>>)
    \o (IF RLt(Rat(17, 20), budgetScore)
        THEN <<"Close to your target budget">> ELSE <<>>)

\* Lines 216-247: the Recommendation pushed for a candidate that is not
\* excluded.  totalScore is kept in thousandths.
recommendationFor(pkg, pr) ==
    LET price == Val(priceForOccupancy(pkg, occFor(pr)))
        pref == scorePreferences(pkg, pr)
        prefScore == IF pref.max = 0 THEN RZero
                     ELSE RMul(pref.score, Rat(1, pref.max))
        valueScore == scoreValueQuality(pkg)
        budgetScore == scoreBudgetFit(price, pr)
        scarcity == scarcityPenalty(pkg)
        total == totalOf(prefScore, valueScore, budgetScore, scarcity)
    IN  [pkg |-> pkg,
         totalScore |-> toFixed3(total),
         breakdown |-> [preferenceMatch |-> prefScore,
                        valueQuality |-> valueScore,
                        budgetFit |-> budgetScore,
                        scarcityPenalty |-> scarcity],
         reasons |-> reasonsOf(pkg, prefScore, budgetScore)]

\* An array that outlives the call: it still holds what the last call left.
staleResults == results

\* Line 206: `const results: Recommendation[] = []`, a new array per call.
freshResults == <<>>

\* A loop in which a candidate's total depends on what was pushed before
\* it: 0.001 is taken off for every earlier recommendation.
RECURSIVE pushAll_earlierCount(_, _, _, _)
pushAll_earlierCount(pk, pr, i, acc) ==
    IF i > Len(pk) THEN acc
    ELSE pushAll_earlierCount(pk, pr, i + 1,
           IF Excluded(pk[i], pr) THEN acc
           ELSE Append(acc, [recommendationFor(pk[i], pr) EXCEPT
                               !.totalScore = @ - Len(acc)]))

\* Lines 208-248: the loop, pushing onto acc from candidate i on.
RECURSIVE pushAll(_, _, _, _)
pushAll(pk, pr, i, acc) ==
    IF i > Len(pk) THEN acc
    ELSE pushAll(pk, pr, i + 1,
                 IF Excluded(pk[i], pr) THEN acc
                 ELSE Append(acc, recommendationFor(pk[i], pr)))

\* Array.prototype.sort with (a, b) => b.totalScore - a.totalScore: a stable
\* sort (ECMAScript 2019), descending by totalScore.  Each element is
\* inserted behind every element that does not compare after it.
\* An insertion that puts an element in front of its equals.
RECURSIVE insertDesc_beforeEquals(_, _)
insertDesc_beforeEquals(sorted, r) ==
    IF sorted = <<>> THEN <<r>>
    ELSE IF Head(sorted).totalScore > r.totalScore
         THEN <<Head(sorted)>> \o insertDesc_beforeEquals(Tail(sorted), r)
         ELSE <<r>> \o sorted

RECURSIVE insertDesc(_, _)
insertDesc(sorted, r) ==
    IF sorted = <<>> THEN <<r>>
    ELSE IF Head(sorted).totalScore >= r.totalScore
         THEN <<Head(sorted)>> \o insertDesc(Tail(sorted), r)
         ELSE <<r>> \o sorted

RECURSIVE sortDesc(_)
sortDesc(rs) ==
    IF rs = <<>> THEN <<>>
    ELSE insertDesc(sortDesc(SubSeq(rs, 1, Len(rs) - 1)), rs[Len(rs)])

\* The length of the shortlist: slice(0, 5).
TOP_N == 5

\* The sorted list returned whole.
slice_whole(rs, n) == rs

slice(rs, n) == SubSeq(rs, 1, IF Len(rs) < n THEN Len(rs) ELSE n)

\* A call that sorts the candidates in the array it was given.
recommendPackagesCall_sortsInput(pk, pr) ==
    LET sorted == sortDesc(pushAll(pk, pr, 1, freshResults))
    IN  [ret |-> slice(sorted, TOP_N),
         packages |-> [k \in 1..Len(sorted) |-> sorted[k].pkg],
         prefs |-> pr]

\* The whole call: what it returns, and the arrays and the record it was
\* given as they are when it returns (it only reads them).
recommendPackagesCall(pk, pr) ==
    [ret |-> slice(sortDesc(pushAll(pk, pr, 1, freshResults)), TOP_N),
     packages |-> pk,
     prefs |-> pr]

recommendPackages(pk, pr) == recommendPackagesCall(pk, pr).ret

(***************************************************************************)
(* Local storage (src/unnamed/part_003)                                    *)
(***************************************************************************)
MAX_FAVOURITES == 5

\* A localStorage item: absent (getItem returns null), a text JSON.parse
\* rejects, the JSON text of a value that is no array, or the JSON text of
\* the array or object val.
Absent == [kind |-> "absent", val |-> <<>>]
Corrupt == [kind |-> "corrupt", val |-> <<>>]
NotArray == [kind |-> "scalar", val |-> <<>>]
Json(v) == [kind |-> "json", val |-> v]

\* An element of a stored JSON array: the string v, or a value that is not a
\* string (it prints as v).
Str(v) == [str |-> TRUE, v |-> v]
NonStr(v) == [str |-> FALSE, v |-> v]
IsStr(x) == x.str

\* JSON.stringify of an array of strings.
stringifyIds(ids) == Json([i \in 1..Len(ids) |-> Str(ids[i])])

includes(ids, id) == \E i \in 1..Len(ids) : ids[i] = id

getFavouriteIds(store) ==
    IF store.kind # "json" THEN <<>>
    ELSE LET strs == SelectSeq(store.val, IsStr)
         IN  [i \in 1..Len(strs) |-> strs[i].v]

\* ids.filter((x) => x !== id)
without(ids, id) == SelectSeq(ids, LAMBDA x : x # id)

\* toggleFavourite testing `ids.length > MAX_FAVOURITES`.
toggleFavourite_limitOffByOne(store, id) ==
    LET ids == getFavouriteIds(store)
    IN  IF includes(ids, id)
        THEN [store |-> stringifyIds(without(ids, id)),
              ok |-> TRUE, message |-> Undefined]
        ELSE IF Len(ids) > MAX_FAVOURITES
        THEN [store |-> store,
              ok |-> FALSE, message |-> "You can save up to 5 packages."]
        ELSE [store |-> stringifyIds(Append(ids, id)),
              ok |-> TRUE, message |-> Undefined]

\* The call: the item as it is stored afterwards, and the returned
\* {ok, message}.
toggleFavourite(store, id) ==
    LET ids == getFavouriteIds(store)
    IN  IF includes(ids, id)
        THEN [store |-> stringifyIds(without(ids, id)),
              ok |-> TRUE, message |-> Undefined]
        ELSE IF Len(ids) >= MAX_FAVOURITES
        THEN [store |-> store,
              ok |-> FALSE, message |-> "You can save up to 5 packages."]
        ELSE [store |-> stringifyIds(Append(ids, id)),
              ok |-> TRUE, message |-> Undefined]

\* An object is a function from its own keys to their values.  The keys
\* that hold an optional value, for which <<>> stands for undefined:
OptionalKeys == {"upgradeFees", "flightPriceSAR"}

\* { ...a, ...b }
Spread(a, b) ==
    [k \in DOMAIN a \cup DOMAIN b |-> IF k \in DOMAIN b THEN b[k] ELSE a[k]]

\* JSON.parse(JSON.stringify(o)) of an object: a key whose value is
\* undefined is left out.
stringifyObject(o) ==
    LET kept == {k \in DOMAIN o : ~(k \in OptionalKeys /\ o[k] = None)}
    IN  [k \in kept |-> o[k]]

\* JSON.stringify of the overrides table.
stringifyOverrides(all) == Json([id \in DOMAIN all |-> stringifyObject(all[id])])

getPackageOverrides(store) == IF store.kind # "json" THEN <<>> ELSE store.val

\* The item as savePackageOverride leaves it.
savePackageOverride(store, packageId, override) ==
    LET all == getPackageOverrides(store)
        old == IF packageId \in DOMAIN all THEN all[packageId] ELSE <<>>
    IN  stringifyOverrides(
            [id \in DOMAIN all \cup {packageId} |->
                IF id = packageId THEN Spread(old, override) ELSE all[id]])

\* The item as clearPackageOverride leaves it.
clearPackageOverride(store, packageId) ==
    LET all == getPackageOverrides(store)
    IN  stringifyOverrides([id \in DOMAIN all \ {packageId} |-> all[id]])

getUserPackages(store) == IF store.kind # "json" THEN <<>> ELSE store.val

\* preloaded.map(...) of mergePackages.
mergedPreloaded(pre, table) ==
    [i \in 1..Len(pre) |->
        IF pre[i].id \in DOMAIN table
        THEN Spread(pre[i], table[pre[i].id]) ELSE pre[i]]

\* A merge that writes the override into the preloaded record itself
\* (Object.assign(pkg, override)).
mergePackagesCall_assignsInPlace(pre, ovStore, userStore) ==
    LET table == getPackageOverrides(ovStore)
    IN  [ret |-> [packages |-> mergedPreloaded(pre, table)
                                \o getUserPackages(userStore),
                  editedIds |-> DOMAIN table],
         preloaded |-> mergedPreloaded(pre, table)]

\* The call: what it returns, and the preloaded array it was given as it is
\* when the call returns.
mergePackagesCall(pre, ovStore, userStore) ==
    LET table == getPackageOverrides(ovStore)
    IN  [ret |-> [packages |-> mergedPreloaded(pre, table)
                                \o getUserPackages(userStore),
                  editedIds |-> DOMAIN table],
         preloaded |-> pre]

mergePackages(pre, ovStore, userStore) ==
    mergePackagesCall(pre, ovStore, userStore).ret

(***************************************************************************)
(* The App (src/src/App.tsx)                                               *)
(***************************************************************************)
\* Lines 46-55: the upgrade fees of the three locations for one tier.
sumUpgradeFees(pkg, occ) ==
    IF pkg.upgradeFees = <<>> THEN 0
    ELSE get(FeeAt(pkg, "makkah", occ)) + get(FeeAt(pkg, "madinah", occ))
         + get(FeeAt(pkg, "aziziya", occ))

\* Lines 63-67.
occupancyLabel(pr) ==
    IF pr.occupancy = "double" THEN "double"
    ELSE IF pr.occupancy = "triple" THEN "triple"
    ELSE "quad"

\* Lines 69-74.
occupancyUpgradeForSelection(pkg, pr) ==
    LET occ == occupancyLabel(pr)
    IN  IF occ = "double" THEN sumUpgradeFees(pkg, "double")
        ELSE IF occ = "triple" THEN sumUpgradeFees(pkg, "triple")
        ELSE 0

\* Lines 627-630: the per-person price shown on a result card, from the
\* preferences of the render.
perPerson(r, pr) ==
    r.pkg.basePriceSAR + majrFee(r.pkg) + occupancyUpgradeForSelection(r.pkg, pr)

\* Lines 465-466.
effectivePrefs(pr, selected) ==
    IF selected = {} THEN pr ELSE [pr EXCEPT !.provider = "any"]

\* Lines 468-471.
filtered(list, selected) ==
    IF selected = {} THEN list
    ELSE SelectSeq(list, LAMBDA p : p.provider \in selected)

(***************************************************************************)
(* Building the catalog: the XLSX loader (src/src/preloadedLoader.ts), the *)
(* CSV importer (src/unnamed/part_002), the Add and Edit forms and the     *)
(* App's handlers around them.                                             *)
(*                                                                         *)
(* A sheet row, a CSV row and a filled form are records of cells.  A text  *)
(* cell is a string ("" when blank); a number cell is <<>> when blank and  *)
(* <<n>> otherwise (cells that are no number at all are left out); the     *)
(* cells of the two mandatory stays are summarised by staysGiven, those of *)
(* the Aziziya stay by aziziyaGiven, the link cell by linkGiven.  Of the   *)
(* six upgrade cells only the Makkah triple one is filled; flights are     *)
(* left blank.  A stay entry is its city.                                  *)
(***************************************************************************)
\* String.prototype.trim and toLowerCase, on the texts the inputs use.
trim(s) ==
    CASE s = " Dur" -> "Dur"
      [] s = " dur" -> "dur"
      [] s = " " -> ""
      [] OTHER -> s

toLowerCase(s) ==
    CASE s = "Dur" -> "dur"
      [] s = " Dur" -> " dur"
      [] s = "Gold" -> "gold"
      [] s = "Silver" -> "silver"
      [] s = "Makkah" -> "makkah"
      [] s = "Non-Shifting" -> "non-shifting"
      [] OTHER -> s

\* part_003 lines 22-27.
packageDedupeKey(p) ==
    <<trim(toLowerCase(p.provider)), trim(toLowerCase(p.packageName)),
      trim(toLowerCase(p.startDate)), trim(toLowerCase(p.endDate))>>

\* part_003 lines 29-34.
getUserPackageKeySet(userStore) ==
    LET pkgs == getUserPackages(userStore)
    IN  {packageDedupeKey(pkgs[i]) : i \in 1..Len(pkgs)}

\* part_003 lines 118-122: the item as saveUserPackage leaves it.
saveUserPackage(userStore, pkg) ==
    Json(Append(getUserPackages(userStore), stringifyObject(pkg)))

\* Number(cell) of a number cell: a blank converts to 0.
NumberOf(cell) == IF cell = None THEN 0 ELSE Val(cell)

\* availableNum (loader), toUpgrade (importer), parseUpgrade (forms): blank
\* or 0 is undefined.
availableNum(cell) == IF cell = None \/ Val(cell) = 0 THEN None ELSE cell

\* parseStay: the loader's (lines 39-44) and the importer's (lines 33-37)
\* agree on every text.
parseStay(cell) ==
    LET v == trim(toLowerCase(cell))
    IN  IF v \in StayLocation THEN v ELSE Undefined

\* preloadedLoader.ts lines 46-52, on the texts the inputs use: "non" is
\* looked for before "shift".
isShiftingValue(cell) ==
    LET v == trim(toLowerCase(cell))
    IN  IF cell = "" THEN Undefined
        ELSE IF v = "non-shifting" THEN "false"
        ELSE IF v = "shifting" THEN "true"
        ELSE Undefined

\* part_002 lines 52-57.
parseShifting(cell) ==
    LET v == trim(toLowerCase(cell))
    IN  IF v = "shifting" THEN "true"
        ELSE IF v = "non-shifting" \/ v = "nonshifting" THEN "false"
        ELSE Undefined

\* The fee table with the Makkah triple cell as its only entry.
feeTable(cell) ==
    [l \in StayLocation |->
        [double |-> None,
         triple |-> IF l = "makkah" THEN availableNum(cell) ELSE None]]

\* preloadedLoader.ts lines 170-176.
loaderHotels(isShifting) ==
    IF isShifting THEN <<"madinah", "makkah", "aziziya">>
    ELSE <<"madinah", "makkah">>

\* preloadedLoader.ts lines 138-158: the row has nothing missing.
loaderAccepts(r) ==
    LET isShifting == isShiftingValue(r.shifting) # "false"
    IN  /\ trim(r.provider) # ""
        /\ trim(r.packageName) # ""
        /\ r.linkGiven
        /\ r.startDate # "" /\ r.endDate # ""
        /\ NumberOf(r.durationDays) > 0
        /\ parseStay(r.firstCity) # Undefined
        /\ r.makkahZone \in MakkahZone
        /\ r.minaCamp \in MinaCamp
        /\ NumberOf(r.basePriceSAR) > 0
        /\ r.staysGiven
        /\ (isShifting => r.aziziyaGiven)

\* preloadedLoader.ts lines 94-136 and 170-195: the package of an accepted
\* row; `isShifting = shiftingParsed ?? true`.
loaderPackage(r, id) ==
    LET isShifting == isShiftingValue(r.shifting) # "false"
    IN  [id |-> id,
         source |-> "preloaded",
         provider |-> trim(r.provider),
         packageName |-> trim(r.packageName),
         startDate |-> r.startDate,
         endDate |-> r.endDate,
         durationDays |-> NumberOf(r.durationDays),
         firstCity |-> parseStay(r.firstCity),
         isShifting |-> isShifting,
         makkahZone |-> r.makkahZone,
         minaCamp |-> r.minaCamp,
         hotels |-> loaderHotels(isShifting),
         basePriceSAR |-> NumberOf(r.basePriceSAR),
         upgradeFees |-> Some(feeTable(r.tripleFee))]

\* crypto.randomUUID(): an id no other package has.  The n-th package built
\* from the sheet gets PreloadedIdPool[n], the n-th package ever stored by
\* the user UserIdPool[n].
PreloadedIdPool == <<"p1", "p2", "p3">>
UserIdPool == <<"u1", "u2", "u3", "u4", "u5", "u6">>

RECURSIVE loadRows(_, _, _)
\* preloadedLoader.ts lines 72-200: the packages of the sheet; a failed
\* fetch or a missing APP_IMPORT sheet gives none.
loadRows(rows, i, acc) ==
    IF i > Len(rows) THEN acc
    ELSE loadRows(rows, i + 1,
            IF loaderAccepts(rows[i])
            THEN Append(acc, loaderPackage(rows[i], PreloadedIdPool[Len(acc) + 1]))
            ELSE acc)

loadPreloadedPackages(sheet) ==
    IF ~sheet.ok THEN <<>> ELSE loadRows(sheet.rows, 1, <<>>)

\* part_002 lines 147-177: the row passes every check.
csvAccepts(r) ==
    /\ trim(r.provider) # "" /\ trim(r.packageName) # ""
    /\ trim(r.startDate) # "" /\ trim(r.endDate) # ""
    /\ NumberOf(r.durationDays) > 0
    /\ parseStay(r.firstCity) # Undefined
    /\ parseShifting(r.shifting) # Undefined
    /\ r.makkahZone \in MakkahZone /\ r.minaCamp \in MinaCamp
    /\ NumberOf(r.basePriceSAR) > 0
    /\ r.staysGiven
    /\ (parseShifting(r.shifting) = "true" => r.aziziyaGiven)

\* part_002 lines 190-196.
csvHotels(isShifting) ==
    IF isShifting THEN <<"madinah", "makkah", "aziziya">>
    ELSE <<"madinah", "makkah">>

\* part_002 lines 179-229.
csvPackage(r, id) ==
    LET isShifting == parseShifting(r.shifting) = "true"
    IN  [id |-> id,
         source |-> "user",
         provider |-> trim(r.provider),
         packageName |-> trim(r.packageName),
         startDate |-> trim(r.startDate),
         endDate |-> trim(r.endDate),
         durationDays |-> NumberOf(r.durationDays),
         firstCity |-> parseStay(r.firstCity),
         isShifting |-> isShifting,
         makkahZone |-> r.makkahZone,
         minaCamp |-> r.minaCamp,
         basePriceSAR |-> NumberOf(r.basePriceSAR),
         hotels |-> csvHotels(isShifting),
         upgradeFees |-> IF availableNum(r.tripleFee) # None
                         THEN Some(feeTable(r.tripleFee)) ELSE None]

RECURSIVE importRows(_, _, _, _)
\* part_002 lines 110-232: the rows in order; ids are taken from the pool
\* starting after `taken`.
importRows(rows, i, taken, acc) ==
    IF i > Len(rows) THEN acc
    ELSE importRows(rows, i + 1, taken,
            IF csvAccepts(rows[i])
            THEN [acc EXCEPT !.packages =
                     Append(@, csvPackage(rows[i], UserIdPool[taken + Len(@) + 1]))]
            ELSE [acc EXCEPT !.errors = Append(@, i + 1)])

\* part_002 lines 75-235.  A file is its header (complete or not) and its
\* data rows; errors holds the row numbers reported.
importTemplateCsv(file, taken) ==
    IF Len(file.rows) = 0 THEN [packages |-> <<>>, errors |-> <<0>>]
    ELSE IF ~file.header THEN [packages |-> <<>>, errors |-> <<0>>]
    ELSE importRows(file.rows, 1, taken, [packages |-> <<>>, errors |-> <<>>])

RECURSIVE saveNew(_, _, _)
\* App.tsx lines 504-517: the user-package item after the loop.
saveNew(pkgs, i, userStore) ==
    IF i > Len(pkgs) THEN userStore
    ELSE saveNew(pkgs, i + 1,
            IF packageDedupeKey(pkgs[i]) \in getUserPackageKeySet(userStore)
            THEN userStore ELSE saveUserPackage(userStore, pkgs[i]))

\* An import that stores the valid rows of a file with errors.
handleCsvFile_keepsValidRows(file, closure, ovStore, userStore, shown) ==
    LET parsed == importTemplateCsv(file, Len(getUserPackages(userStore)))
        stored == saveNew(parsed.packages, 1, userStore)
    IN  [userPackages |-> stored,
         merged |-> mergePackages(closure, ovStore, stored),
         errors |-> Len(parsed.errors),
         parsed |-> Len(parsed.packages)]

\* App.tsx lines 490-522, the part of handleCsvFile after `await
\* file.text()`: the user-package item and the merged list as it leaves
\* them.  closure is the `preloaded` of the render the handler was started
\* in, shown the merged list on screen.
handleCsvFile(file, closure, ovStore, userStore, shown) ==
    LET parsed == importTemplateCsv(file, Len(getUserPackages(userStore)))
        stored == saveNew(parsed.packages, 1, userStore)
    IN  IF Len(parsed.errors) > 0
        THEN [userPackages |-> userStore,
              merged |-> shown,
              errors |-> Len(parsed.errors),
              parsed |-> Len(parsed.packages)]
        ELSE [userPackages |-> stored,
              merged |-> mergePackages(closure, ovStore, stored),
              errors |-> 0,
              parsed |-> Len(parsed.packages)]

\* AddPackageModal.tsx lines 149-168: no alert is raised.
addAccepts(f) ==
    /\ trim(f.provider) # "" /\ trim(f.packageName) # ""
    /\ f.startDate # "" /\ f.endDate # ""
    /\ NumberOf(f.durationDays) > 0
    /\ NumberOf(f.basePriceSAR) > 0
    /\ f.staysGiven
    /\ (f.shifting = "shifting" => f.aziziyaGiven)

\* AddPackageModal.tsx lines 182-188.
addHotels(isShifting) ==
    IF isShifting THEN <<"madinah", "makkah", "aziziya">>
    ELSE <<"madinah", "makkah">>

\* AddPackageModal.tsx lines 170-218; firstCity, shifting, zone and camp
\* come from select boxes.
addPackage(f, id) ==
    LET isShifting == f.shifting = "shifting"
    IN  [id |-> id,
         source |-> "user",
         provider |-> trim(f.provider),
         packageName |-> trim(f.packageName),
         startDate |-> f.startDate,
         endDate |-> f.endDate,
         durationDays |-> NumberOf(f.durationDays),
         firstCity |-> f.firstCity,
         isShifting |-> isShifting,
         makkahZone |-> f.makkahZone,
         minaCamp |-> f.minaCamp,
         basePriceSAR |-> NumberOf(f.basePriceSAR),
         hotels |-> addHotels(isShifting),
         upgradeFees |-> IF availableNum(f.tripleFee) # None
                         THEN Some(feeTable(f.tripleFee)) ELSE None]

\* EditPackageModal.tsx lines 106-150: the form as it opens on pkg.
editForm(pkg) ==
    [provider |-> pkg.provider,
     packageName |-> pkg.packageName,
     startDate |-> pkg.startDate,
     endDate |-> pkg.endDate,
     durationDays |-> Some(pkg.durationDays),
     firstCity |-> pkg.firstCity,
     shifting |-> IF pkg.isShifting THEN "shifting" ELSE "non-shifting",
     makkahZone |-> pkg.makkahZone,
     minaCamp |-> pkg.minaCamp,
     basePriceSAR |-> Some(pkg.basePriceSAR),
     tripleFee |-> IF "upgradeFees" \in DOMAIN pkg
                   THEN availableNum(FeeAt(pkg, "makkah", "triple")) ELSE None]

\* An override that leaves the stay list out.
editOverride_withoutHotels(f) ==
    [provider |-> trim(f.provider),
     packageName |-> trim(f.packageName),
     startDate |-> f.startDate,
     endDate |-> f.endDate,
     durationDays |-> NumberOf(f.durationDays),
     firstCity |-> f.firstCity,
     isShifting |-> f.shifting = "shifting",
     makkahZone |-> f.makkahZone,
     minaCamp |-> f.minaCamp,
     basePriceSAR |-> NumberOf(f.basePriceSAR),
     upgradeFees |-> IF availableNum(f.tripleFee) # None
                     THEN Some(feeTable(f.tripleFee)) ELSE None]

\* EditPackageModal.tsx lines 153-195: the override save() builds from the
\* form; nothing is validated.
editOverride(f) ==
    [provider |-> trim(f.provider),
     packageName |-> trim(f.packageName),
     startDate |-> f.startDate,
     endDate |-> f.endDate,
     durationDays |-> NumberOf(f.durationDays),
     firstCity |-> f.firstCity,
     isShifting |-> f.shifting = "shifting",
     makkahZone |-> f.makkahZone,
     minaCamp |-> f.minaCamp,
     basePriceSAR |-> NumberOf(f.basePriceSAR),
     hotels |-> IF f.shifting = "shifting"
                THEN <<"madinah", "makkah", "aziziya">>
                ELSE <<"madinah", "makkah">>,
     upgradeFees |-> IF availableNum(f.tripleFee) # None
                     THEN Some(feeTable(f.tripleFee)) ELSE None]

(***************************************************************************)
(* Inputs                                                                  *)
(***************************************************************************)
NoDate == [txt |-> "undefined", day |-> 0]
Iso(n) == [txt |-> "iso", day |-> n]
EmptyDate == [txt |-> "empty", day |-> 0]
Garbage == [txt |-> "garbage", day |-> 0]

\* A well-formed non-shifting record; the input sets below vary its fields.
\* Days are counted from the epoch: 20591 is 2026-05-18.
BasePkg ==
    [id |-> 0,
     provider |-> "Al Bait",
     startDate |-> Iso(20591),
     endDate |-> Iso(20606),
     durationDays |-> 15,
     isShifting |-> FALSE,
     makkahZone |-> "A",
     minaCamp |-> "muaisim",
     hotels |-> <<"madinah", "makkah">>,
     basePriceSAR |-> 2000000,
     upgradeFees |-> None,
     flightPriceSAR |-> None]

\* Preferences with nothing set (the App's defaults but for the budget).
BasePrefs ==
    [provider |-> Undefined,
     firstStay |-> Undefined,
     lastStay |-> Undefined,
     startDate |-> NoDate,
     endDate |-> NoDate,
     durationDays |-> None,
     makkahZone |-> Undefined,
     minaCamp |-> Undefined,
     occupancy |-> Undefined,
     shifting |-> Undefined,
     budgetAmount |-> 3000000,
     hujjajCount |-> 1]

\* The catalog array of the given records: the record at position i gets id i.
WithIds(seq) == [i \in 1..Len(seq) |-> [seq[i] EXCEPT !.id = i]]

\* --- pricing inputs (specification Spec) ---
\* The positive fee a location charges, when it charges one.
PosFee(loc) ==
    IF loc = "makkah" THEN 600000
    ELSE IF loc = "madinah" THEN 300000 ELSE 150000

FeeVals(loc) == {None, Some(0), Some(PosFee(loc))}

\* The fees of one tier over the three locations.
TierPatterns ==
    [StayLocation -> {None, Some(0)}]
    \cup {f \in [StayLocation -> {None, Some(0), Some(1)}] :
            \E l \in StayLocation : f[l] = Some(1)}
    \cup {[l \in StayLocation |-> Some(-5000)]}
    \cup {[l \in StayLocation |->
             IF l = "makkah" THEN Some(1)
             ELSE IF l = "madinah" THEN Some(-5000) ELSE None]}

Fee(pat, loc) == IF pat[loc] = Some(1) THEN Some(PosFee(loc)) ELSE pat[loc]

PlainPatterns ==
    {[l \in StayLocation |-> None], [l \in StayLocation |-> Some(1)]}

FeeTables ==
    {[l \in StayLocation |-> [double |-> Fee(d, l), triple |-> Fee(t, l)]] :
        <<d, t>> \in (TierPatterns \X PlainPatterns)
                     \cup (PlainPatterns \X TierPatterns)}

PricingShapes ==
    {[BasePkg EXCEPT !.basePriceSAR = b, !.minaCamp = c, !.upgradeFees = u] :
        b \in {-100, 0, 2000000},
        c \in MinaCamp,
        u \in {None} \cup {Some(t) : t \in FeeTables}}

\* A record every tier is available for.
Anchor ==
    [BasePkg EXCEPT
       !.makkahZone = "C",
       !.upgradeFees = Some([l \in StayLocation |->
                               [double |-> Some(PosFee(l)),
                                triple |-> Some(PosFee(l))]])]

PricingCatalogs ==
    {WithIds(c) : c \in UNION {{<<p>>, <<p, Anchor>>, <<Anchor, p>>} :
                                p \in PricingShapes}}

PricingPrefs ==
    {[BasePrefs EXCEPT !.occupancy = o] :
        o \in {Undefined, "any", "quad", "triple", "double"}}

\* --- scoring inputs (specification SpecScore) ---
ScoringShapes ==
    {[BasePkg EXCEPT !.basePriceSAR = b, !.minaCamp = c, !.makkahZone = z,
                     !.isShifting = sh, !.hotels = h, !.flightPriceSAR = f] :
        b \in {2000000, 2500000},
        c \in MinaCamp,
        z \in MakkahZone,
        sh \in BOOLEAN,
        h \in {<<"makkah">>, <<"madinah", "makkah">>,
               <<"madinah", "makkah", "aziziya">>},
        f \in {None, Some(0), Some(350000)}}

\* The same record in the other camp.
Twin(p) ==
    [p EXCEPT !.minaCamp = IF p.minaCamp = "majr" THEN "muaisim" ELSE "majr"]

ScoringCatalogs ==
    {WithIds(c) : c \in UNION {{<<p>>, <<p, Twin(p)>>} : p \in ScoringShapes}}

ScoringPrefs ==
    {[BasePrefs EXCEPT !.budgetAmount = b[1], !.hujjajCount = b[2],
                       !.makkahZone = z, !.minaCamp = c,
                       !.startDate = w[1], !.endDate = w[2],
                       !.durationDays = w[3]] :
        b \in {<<3000000, 1>>, <<2000000, 1>>, <<5000000, 2>>, <<0, 1>>},
        z \in {Undefined, "B"},
        c \in {Undefined, "majr"},
        w \in {<<NoDate, NoDate, None>>,
               <<Iso(20594), Iso(20610), Some(14)>>}}

\* --- preference inputs (specification SpecPrefs) ---
\* A record the dates of which parse, and a record whose end date does not.
PrefShapes ==
    {BasePkg,
     [BasePkg EXCEPT !.isShifting = TRUE, !.makkahZone = "C",
                     !.minaCamp = "majr", !.endDate = Garbage,
                     !.hotels = <<"madinah", "makkah", "aziziya">>]}

PrefCatalogs == {WithIds(<<p>>) : p \in PrefShapes}

\* The date windows a preference record can hold: none, a start only, an
\* empty end, a window around the record's, a window five days later, and
\* windows with a date that does not parse.
PrefWindows ==
    {<<NoDate, NoDate>>, <<Iso(20591), NoDate>>, <<Iso(20590), EmptyDate>>,
     <<Iso(20590), Iso(20607)>>, <<Iso(20596), Iso(20611)>>,
     <<Garbage, Iso(20607)>>}

FieldPrefs ==
    {[BasePrefs EXCEPT !.provider = pv, !.firstStay = st[1], !.lastStay = st[2],
                       !.makkahZone = z, !.minaCamp = c, !.shifting = sh,
                       !.startDate = w[1], !.endDate = w[2],
                       !.durationDays = du] :
        pv \in {Undefined, "", "any", "Al Bait"},
        st \in {<<Undefined, Undefined>>, <<"any", "any">>,
                <<"madinah", "aziziya">>},
        z \in {Undefined, "any", "B"},
        c \in {Undefined, "any", "majr"},
        sh \in {Undefined, "any", "non-shifting"},
        w \in PrefWindows,
        du \in {None, Some(0), Some(10)}}
\* --- date windows (specification SpecDates) ---
\* How far, in days, a preference date is moved from the record's.
MaxShift == 20

\* Preference windows around the record's window (2026-05-18 to
\* 2026-06-02), each end moved by up to MaxShift days either way, and
\* windows that start on 1970-01-01.
WindowPrefs ==
    {[BasePrefs EXCEPT !.startDate = Iso(us), !.endDate = Iso(ue)] :
        us \in {0} \cup {20591 + k : k \in (0 - MaxShift)..MaxShift},
        ue \in {20606 + k : k \in {0 - MaxShift, -15, -14, -13, -7, -1, 0,
                                   1, 7, 13, 14, 15, MaxShift}}}

WindowCatalogs == {WithIds(<<BasePkg>>)}
\* --- proximity tiers (specification SpecZones) ---
ZoneShapes ==
    {[BasePkg EXCEPT !.makkahZone = z, !.minaCamp = c, !.isShifting = sh] :
        z \in MakkahZone, c \in MinaCamp, sh \in BOOLEAN}

ZoneCatalogs == {WithIds(<<p>>) : p \in ZoneShapes}

ZonePrefs ==
    {[BasePrefs EXCEPT !.makkahZone = z] :
        z \in {Undefined, "any"} \cup MakkahZone}
\* --- budget inputs (specification SpecBudget) ---
\* Prices around a per-person target of 20000 SAR: far below it, at the 0.6
\* floor, just below, at and just above it, between it and its double, just
\* below, at and above the double.
BudgetPrices ==
    {1, 600000, 1200000, 1600000, 1900000, 2000000, 2100000, 3000000,
     3900000, 4000000, 4100000, 6000000}

BudgetCatalogs ==
    {WithIds(<<[BasePkg EXCEPT !.basePriceSAR = a],
               [BasePkg EXCEPT !.basePriceSAR = b]>>) :
        a \in BudgetPrices, b \in BudgetPrices}

\* Budgets for 1 and 2 people with the same per-person target, headcounts
\* of 0 and below, and budgets of 0 and below.
BudgetPrefs ==
    {[BasePrefs EXCEPT !.budgetAmount = b[1], !.hujjajCount = b[2]] :
        b \in {<<2000000, 1>>, <<4000000, 2>>, <<2000000, 0>>,
               <<2000000, -2>>, <<0, 1>>, <<-1000000, 1>>, <<0, 0>>}}
\* --- ranking inputs (specification SpecRank) ---
\* The longest catalog.
MaxCatalog == 6

\* Records with different totals, a record that repeats (equal totals), and
\* an unpriced one.
RankingShapes ==
    {BasePkg,
     [BasePkg EXCEPT !.makkahZone = "C"],
     [BasePkg EXCEPT !.basePriceSAR = 0]}

RankingCatalogs ==
    {WithIds(c) : c \in UNION {[1..n -> RankingShapes] : n \in 0..MaxCatalog}}

RankingPrefs ==
    {BasePrefs, [BasePrefs EXCEPT !.makkahZone = "C", !.shifting = "shifting"]}

\* --- catalogs for reordering (specification SpecIndep) ---
\* Every catalog of up to 3 records of the ranking shapes, and every catalog
\* of 6 priced records of two shapes (one more than the shortlist holds).
IndepCatalogs ==
    {WithIds(c) : c \in UNION {[1..n -> RankingShapes] : n \in 0..3}}
    \cup {WithIds(c) :
            c \in [1..6 -> {BasePkg, [BasePkg EXCEPT !.makkahZone = "C"]}]}

\* --- inputs of repeated calls (specification SpecCalls) ---
CallCatalogs ==
    {WithIds(c) :
        c \in UNION {[1..n -> {BasePkg,
                               [BasePkg EXCEPT !.makkahZone = "C"],
                               [BasePkg EXCEPT !.minaCamp = "majr"],
                               Anchor}] : n \in 0..2}}

CallPrefs ==
    {BasePrefs,
     [BasePrefs EXCEPT !.makkahZone = "C"],
     [BasePrefs EXCEPT !.occupancy = "triple", !.budgetAmount = 2000000]}

\* --- the recommendations screen (specification SpecShown) ---
\* A record with fees for one tier only, and one of another provider.
TripleOnly ==
    [Anchor EXCEPT !.upgradeFees =
        Some([l \in StayLocation |->
                [double |-> None,
                 triple |-> IF l = "aziziya" THEN Some(0) ELSE Some(PosFee(l))]])]

ShownCatalogs ==
    {WithIds(<<BasePkg, Anchor>>),
     WithIds(<<[Anchor EXCEPT !.provider = "Dur", !.minaCamp = "majr"], TripleOnly>>),
     WithIds(<<[BasePkg EXCEPT !.provider = "Dur"]>>)}

\* The provider the user ticks and unticks.
ShownProviders == {"Dur"}

\* What the preferences screen can hand to setPrefs here; the last one has
\* no budget, and 'Get recommendations' refuses to run on it.
ShownPrefs ==
    {[BasePrefs EXCEPT !.occupancy = "any"],
     [BasePrefs EXCEPT !.occupancy = "triple"],
     [BasePrefs EXCEPT !.occupancy = "double", !.hujjajCount = 2],
     [BasePrefs EXCEPT !.occupancy = "any", !.budgetAmount = 0]}

\* --- building the catalog (specification SpecCatalog) ---
\* A complete non-shifting row.
BaseRow ==
    [provider |-> "Dur",
     packageName |-> "Gold",
     startDate |-> "2026-05-18",
     endDate |-> "2026-06-02",
     durationDays |-> Some(15),
     firstCity |-> "madinah",
     shifting |-> "non-shifting",
     makkahZone |-> "A",
     minaCamp |-> "muaisim",
     basePriceSAR |-> Some(2000000),
     staysGiven |-> TRUE,
     aziziyaGiven |-> FALSE,
     linkGiven |-> TRUE,
     tripleFee |-> None]

\* A complete shifting row that starts in Makkah.
ShiftingRow ==
    [BaseRow EXCEPT !.packageName = "Silver", !.firstCity = "Makkah",
                    !.shifting = "shifting", !.aziziyaGiven = TRUE,
                    !.tripleFee = Some(600000)]

\* The sheet the fetch can deliver: none; or an accepted row, a row with a
\* blank shifting cell and a row without a price.
Sheets ==
    {[ok |-> FALSE, rows |-> <<>>],
     [ok |-> TRUE,
      rows |-> <<BaseRow,
                 [ShiftingRow EXCEPT !.shifting = ""],
                 [BaseRow EXCEPT !.basePriceSAR = Some(0)]>>]}

\* The files the user can pick: a valid row and a row with a blank
\* shifting cell; the same valid row twice; an incomplete header; no rows.
CsvFiles ==
    {[header |-> TRUE,
      rows |-> <<[BaseRow EXCEPT !.provider = "dur"],
                 [ShiftingRow EXCEPT !.shifting = ""]>>],
     [header |-> TRUE, rows |-> <<ShiftingRow, ShiftingRow>>],
     [header |-> FALSE, rows |-> <<BaseRow>>],
     [header |-> TRUE, rows |-> <<>>]}

\* What the user can type into the Add form.
AddForms ==
    {[BaseRow EXCEPT !.provider = " Dur", !.firstCity = "aziziya",
                     !.shifting = "shifting", !.aziziyaGiven = TRUE],
     [BaseRow EXCEPT !.provider = " "]}

\* What the user can change in the Edit form before saving.
EditChanges ==
    {[shifting |-> "shifting"],
     [shifting |-> "non-shifting", firstCity |-> "makkah"],
     [basePriceSAR |-> Some(2100000), tripleFee |-> None]}

\* The number of packages the user stores.
MaxUserPackages == 2

\* The number of packages that carry an override at the same time.
MaxEdited == 1

\* --- favourites (specification SpecFav) ---
\* The ids the user can toggle: one more than the list may hold.
FavouriteIds == {"p1", "p2", "p3", "p4", "p5", "p6"}

\* Stored lists of at most 5 entries.
FavouriteStores ==
    {Absent, Corrupt, NotArray, Json(<<>>),
     Json(<<Str("p1"), Str("p2"), Str("p3"), Str("p4"), Str("p5")>>),
     Json(<<Str("p6"), NonStr("7"), Str("p2"), NonStr("null"), Str("p6")>>)}

\* --- overrides (specification SpecOverrides) ---
PreloadedIds == {"p1", "p2"}

PreloadedList ==
    <<[BasePkg EXCEPT !.id = "p1"],
      [BasePkg EXCEPT !.id = "p2", !.provider = "Dur", !.minaCamp = "majr",
                      !.upgradeFees = Anchor.upgradeFees]>>

UserPkg == [BasePkg EXCEPT !.id = "user-1", !.provider = "Mine"]

\* What the edit form can save: a new provider; a new base price together
\* with `upgradeFees: undefined`.
OverrideInputs ==
    {[provider |-> "Edited"],
     [basePriceSAR |-> 2100000, upgradeFees |-> None]}

OverrideStores ==
    {Absent, Corrupt, Json(<<>>), Json([id \in {"p2"} |-> [provider |-> "Edited"]])}

UserStores == {Absent, Json(<<UserPkg>>)}

(***************************************************************************)
(* The state machine                                                       *)
(***************************************************************************)
\* No call of the storage module made yet.
NoCall == [op |-> "none"]

\* The number of calls a behaviour makes.
MaxCalls == 3

\* No handleCsvFile call in flight.
NoImport == [pc |-> "idle"]

\* The App's own state while the engine or the storage module is exercised
\* by itself.
AppIdle ==
    /\ loadingPackages = FALSE
    /\ csv = NoImport
    /\ selectedProviders = {}

InitWith(catalogs, prefSet) ==
    /\ packages \in catalogs
    /\ prefs \in prefSet
    /\ results = <<>>
    /\ calls = 0
    /\ log = <<>>
    /\ favourites = Absent
    /\ overrides = Absent
    /\ userPackages = Absent
    /\ preloaded = <<>>
    /\ merged = [packages |-> <<>>, editedIds |-> {}]
    /\ ret = NoCall
    /\ trail = <<>>
    /\ AppIdle

\* A caller runs recommendPackages on the catalog and the preferences it
\* holds, and keeps the returned list.
Recommend ==
    /\ calls < MaxCalls
    /\ LET c == recommendPackagesCall(packages, prefs)
       IN  /\ results' = c.ret
           /\ packages' = c.packages
           /\ prefs' = c.prefs
           /\ log' = Append(log, [packages |-> packages, prefs |-> prefs,
                                  ret |-> c.ret])
    /\ calls' = calls + 1
    /\ UNCHANGED storeVars
    /\ UNCHANGED appVars

\* The caller replaces its preference record (the App's setPrefs) before
\* the next run.
SetPrefs(p) ==
    /\ calls < MaxCalls
    /\ p # prefs
    /\ prefs' = p
    /\ UNCHANGED <<packages, results, calls, log>>
    /\ UNCHANGED storeVars
    /\ UNCHANGED appVars

Init == InitWith(PricingCatalogs, PricingPrefs)

Next == calls = 0 /\ Recommend

Spec == Init /\ [][Next]_vars

InitScore == InitWith(ScoringCatalogs, ScoringPrefs)

SpecScore == InitScore /\ [][Next]_vars

InitCalls == InitWith(CallCatalogs, CallPrefs)

NextCalls == Recommend \/ \E p \in CallPrefs : SetPrefs(p)

SpecCalls == InitCalls /\ [][NextCalls]_vars

InitRank == InitWith(RankingCatalogs, RankingPrefs)

SpecRank == InitRank /\ [][Next]_vars

InitPrefs == InitWith(PrefCatalogs, FieldPrefs)

SpecPrefs == InitPrefs /\ [][Next]_vars

InitDates == InitWith(WindowCatalogs, WindowPrefs)

SpecDates == InitDates /\ [][Next]_vars

InitZones == InitWith(ZoneCatalogs, ZonePrefs)

SpecZones == InitZones /\ [][Next]_vars

InitBudget == InitWith(BudgetCatalogs, BudgetPrefs)

SpecBudget == InitBudget /\ [][Next]_vars

InitIndep == InitWith(IndepCatalogs, RankingPrefs)

SpecIndep == InitIndep /\ [][Next]_vars

\* The App with the merged list already built: nothing stored, no load or
\* import in flight.
StoreIdle ==
    /\ favourites = Absent
    /\ overrides = Absent
    /\ userPackages = Absent
    /\ preloaded = <<>>
    /\ ret = NoCall
    /\ trail = <<>>

\* App.tsx lines 455-474, the 'Get recommendations' button: past the two
\* alerts, recommendPackages runs on the filtered list and setResults keeps
\* what it returns.
RunRecommendation ==
    /\ calls < MaxCalls
    /\ prefs.budgetAmount # 0 /\ prefs.hujjajCount # 0
    /\ Len(merged.packages) # 0
    /\ LET pk == filtered(merged.packages, selectedProviders)
           pr == effectivePrefs(prefs, selectedProviders)
           c == recommendPackagesCall(pk, pr)
       IN  /\ results' = c.ret
           /\ packages' = c.packages
           /\ log' = Append(log, [packages |-> pk, prefs |-> pr, ret |-> c.ret])
    /\ calls' = calls + 1
    /\ UNCHANGED <<prefs, storeVars, appVars>>

\* App.tsx line 763: the preferences screen hands a new record to setPrefs.
ChangePrefs(p) ==
    /\ p # prefs
    /\ prefs' = p
    /\ UNCHANGED <<packages, results, calls, log, storeVars, appVars>>

\* App.tsx lines 443-447: a provider is ticked or unticked.
toggleProvider(p) ==
    /\ selectedProviders' = IF p \in selectedProviders
                            THEN selectedProviders \ {p}
                            ELSE selectedProviders \cup {p}
    /\ UNCHANGED <<engineVars, storeVars, loadingPackages, csv>>

InitShown ==
    /\ packages = <<>>
    /\ prefs \in ShownPrefs
    /\ results = <<>>
    /\ calls = 0
    /\ log = <<>>
    /\ StoreIdle
    /\ merged \in {[packages |-> c, editedIds |-> {}] : c \in ShownCatalogs}
    /\ AppIdle

NextShown ==
    \/ RunRecommendation
    \/ \E p \in ShownPrefs : ChangePrefs(p)
    \/ \E p \in ShownProviders : toggleProvider(p)

SpecShown == InitShown /\ [][NextShown]_vars

\* The engine's variables while the storage module is exercised.
EngineIdle ==
    /\ packages = <<>>
    /\ prefs = BasePrefs
    /\ results = <<>>
    /\ calls = 0
    /\ log = <<>>

\* App.tsx lines 419-424: loadPreloadedPackages has resolved.
LoadCompleted(sheet) ==
    /\ loadingPackages
    /\ preloaded' = loadPreloadedPackages(sheet)
    /\ merged' = mergePackages(preloaded', overrides, userPackages)
    /\ loadingPackages' = FALSE
    /\ ret' = [op |-> "load"]
    /\ UNCHANGED <<favourites, overrides, userPackages, trail, csv,
                   selectedProviders, engineVars>>

\* App.tsx lines 425-429: loadPreloadedPackages has thrown.
LoadFailed ==
    /\ loadingPackages
    /\ loadingPackages' = FALSE
    /\ ret' = [op |-> "loadFailed"]
    /\ UNCHANGED <<favourites, overrides, userPackages, preloaded, merged,
                   trail, csv, selectedProviders, engineVars>>

\* App.tsx lines 487-490: handleCsvFile runs up to `await file.text()`; the
\* call keeps the `preloaded` of the render it was started in.
CsvStart(file) ==
    /\ csv = NoImport
    /\ Len(getUserPackages(userPackages)) < MaxUserPackages
    /\ csv' = [pc |-> "reading", file |-> file, preloaded |-> preloaded]
    /\ UNCHANGED <<storeVars, loadingPackages, selectedProviders, engineVars>>

\* App.tsx lines 490-522: handleCsvFile resumes with the text of the file.
CsvResume ==
    /\ csv # NoImport
    /\ LET c == handleCsvFile(csv.file, csv.preloaded, overrides, userPackages,
                              merged)
       IN  /\ userPackages' = c.userPackages
           /\ merged' = c.merged
           /\ ret' = [op |-> "handleCsvFile", errors |-> c.errors,
                      parsed |-> c.parsed,
                      unchanged |-> (userPackages' = userPackages
                                     /\ merged' = merged)]
    /\ csv' = NoImport
    /\ UNCHANGED <<favourites, overrides, preloaded, trail, loadingPackages,
                   selectedProviders, engineVars>>

\* AddPackageModal.tsx lines 142-223 with the onSaved of App.tsx lines
\* 814-819, for a form that raises no alert.
AddPackage(f) ==
    /\ addAccepts(f)
    /\ Len(getUserPackages(userPackages)) < MaxUserPackages
    /\ userPackages' =
          saveUserPackage(userPackages,
              addPackage(f, UserIdPool[Len(getUserPackages(userPackages)) + 1]))
    /\ merged' = mergePackages(preloaded, overrides, userPackages')
    /\ ret' = [op |-> "add"]
    /\ UNCHANGED <<favourites, overrides, preloaded, trail, appVars, engineVars>>

\* EditPackageModal.tsx lines 152-200 with the onSaved of App.tsx lines
\* 802-807: the card at position i of the list is edited and saved.
EditSave(i, change) ==
    /\ i \in 1..Len(merged.packages)
    /\ \/ merged.packages[i].id \in DOMAIN getPackageOverrides(overrides)
       \/ Cardinality(DOMAIN getPackageOverrides(overrides)) < MaxEdited
    /\ LET pkg == merged.packages[i]
           o == editOverride(Spread(editForm(pkg), change))
       IN  /\ overrides' = savePackageOverride(overrides, pkg.id, o)
           /\ ret' = [op |-> "save", id |-> pkg.id, override |-> o]
    /\ merged' = mergePackages(preloaded, overrides', userPackages)
    /\ UNCHANGED <<favourites, userPackages, preloaded, trail, appVars, engineVars>>

\* EditPackageModal.tsx lines 202-206 and 359-363: 'Reset to original',
\* offered for preloaded packages.
EditReset(i) ==
    /\ i \in 1..Len(merged.packages)
    /\ merged.packages[i].source = "preloaded"
    /\ overrides' = clearPackageOverride(overrides, merged.packages[i].id)
    /\ ret' = [op |-> "reset", id |-> merged.packages[i].id]
    /\ merged' = mergePackages(preloaded, overrides', userPackages)
    /\ UNCHANGED <<favourites, userPackages, preloaded, trail, appVars, engineVars>>

\* The App as it is mounted on a device that stores nothing yet.
InitCatalog ==
    /\ EngineIdle
    /\ favourites = Absent
    /\ overrides = Absent
    /\ userPackages = Absent
    /\ preloaded = <<>>
    /\ merged = [packages |-> <<>>, editedIds |-> {}]
    /\ ret = NoCall
    /\ trail = <<>>
    /\ loadingPackages = TRUE
    /\ csv = NoImport
    /\ selectedProviders = {}

NextCatalog ==
    \/ \E sheet \in Sheets : LoadCompleted(sheet)
    \/ LoadFailed
    \/ \E file \in CsvFiles : CsvStart(file)
    \/ CsvResume
    \/ \E f \in AddForms : AddPackage(f)
    \/ \E i \in 1..5 : \E change \in EditChanges : EditSave(i, change)
    \/ \E i \in 1..5 : EditReset(i)

SpecCatalog == InitCatalog /\ [][NextCatalog]_vars

\* onToggleSaved's call of toggleFavourite(id).
ToggleFavourite(id) ==
    /\ LET c == toggleFavourite(favourites, id)
       IN  /\ favourites' = c.store
           /\ ret' = [op |-> "toggleFavourite", id |-> id,
                      ok |-> c.ok, message |-> c.message]
    /\ UNCHANGED <<overrides, userPackages, preloaded, merged, trail>>
    /\ UNCHANGED engineVars
    /\ UNCHANGED appVars

InitFav ==
    /\ EngineIdle
    /\ favourites \in FavouriteStores
    /\ overrides = Absent
    /\ userPackages = Absent
    /\ preloaded = <<>>
    /\ merged = [packages |-> <<>>, editedIds |-> {}]
    /\ ret = NoCall
    /\ trail = <<>>
    /\ AppIdle

NextFav == \E id \in FavouriteIds : ToggleFavourite(id)

SpecFav == InitFav /\ [][NextFav]_vars

\* EditPackageModal.save's call savePackageOverride(pkg.id, override).
SavePackageOverride(id, o) ==
    /\ overrides' = savePackageOverride(overrides, id, o)
    /\ ret' = [op |-> "savePackageOverride", id |-> id]
    /\ trail' = [trail EXCEPT ![id] = "saved"]
    /\ UNCHANGED <<favourites, userPackages, preloaded, merged>>
    /\ UNCHANGED engineVars
    /\ UNCHANGED appVars

\* EditPackageModal.resetToOriginal's call clearPackageOverride(pkg.id).
ClearPackageOverride(id) ==
    /\ overrides' = clearPackageOverride(overrides, id)
    /\ ret' = [op |-> "clearPackageOverride", id |-> id]
    /\ trail' = [trail EXCEPT ![id] = IF @ = "none" THEN "none" ELSE "cleared"]
    /\ UNCHANGED <<favourites, userPackages, preloaded, merged>>
    /\ UNCHANGED engineVars
    /\ UNCHANGED appVars

\* A call mergePackages(preloaded).
MergePackages ==
    /\ LET c == mergePackagesCall(preloaded, overrides, userPackages)
       IN  /\ merged' = c.ret
           /\ preloaded' = c.preloaded
    /\ ret' = [op |-> "mergePackages"]
    /\ UNCHANGED <<favourites, overrides, userPackages, trail>>
    /\ UNCHANGED engineVars
    /\ UNCHANGED appVars

InitOverrides ==
    /\ EngineIdle
    /\ favourites = Absent
    /\ overrides \in OverrideStores
    /\ userPackages \in UserStores
    /\ preloaded = PreloadedList
    /\ merged = [packages |-> <<>>, editedIds |-> {}]
    /\ ret = NoCall
    /\ trail = [id \in PreloadedIds |-> "none"]
    /\ AppIdle

NextOverrides ==
    \/ \E id \in PreloadedIds : \E o \in OverrideInputs :
          SavePackageOverride(id, o)
    \/ \E id \in PreloadedIds : ClearPackageOverride(id)
    \/ MergePackages

SpecOverrides == InitOverrides /\ [][NextOverrides]_vars

(***************************************************************************)
(* Properties                                                              *)
(***************************************************************************)
\* The catalog record at position i is among the returned recommendations.
InResults(i) == \E k \in 1..Len(results) : results[k].pkg = packages[i]

\* The locations at which the record has a positive fee for the tier.
PositiveAt(pkg, tier) ==
    {l \in StayLocation : IsNum(FeeAt(pkg, l, tier)) /\ Val(FeeAt(pkg, l, tier)) > 0}

\* C3: a record whose base price is zero or negative never appears in the
\* result of recommendPackages, whatever the preferences and the requested
\* occupancy tier.
C3_NoUnpricedRecord ==
    calls > 0 =>
        \A i \in 1..Len(packages) :
            packages[i].basePriceSAR <= 0 => ~InResults(i)

C3_Witness ==
    /\ calls > 0
    /\ results # <<>>
    /\ prefs.occupancy = "triple"
    /\ \E i \in 1..Len(packages) :
         /\ packages[i].basePriceSAR = 0
         /\ packages[i].minaCamp = "majr"
         /\ PositiveAt(packages[i], "triple") # {}

\* C4: when the preferences request triple (double) occupancy, a record with
\* no positive triple (double) fee at any of the three stay locations is
\* excluded from the result.
C4_UnavailableTierExcluded ==
    (calls > 0 /\ prefs.occupancy \in {"triple", "double"}) =>
        \A i \in 1..Len(packages) :
            PositiveAt(packages[i], prefs.occupancy) = {} => ~InResults(i)

C4_Witness ==
    /\ calls > 0
    /\ prefs.occupancy = "double"
    /\ results # <<>>
    /\ \E i \in 1..Len(packages) :
         /\ packages[i].basePriceSAR > 0
         /\ packages[i].upgradeFees # None
         /\ PositiveAt(packages[i], "double") = {}
         /\ PositiveAt(packages[i], "triple") # {}

\* C5: with triple occupancy requested, a record with a positive base price
\* and a positive triple fee at exactly one stay location, the other two
\* locations' triple fees being undefined or zero, is not excluded, and its
\* resolved price is base + camp surcharge + that one fee.
C5_SingleLocationTierAvailable ==
    (calls > 0 /\ prefs.occupancy = "triple") =>
        \A i \in 1..Len(packages) : \A l \in StayLocation :
            (/\ packages[i].basePriceSAR > 0
             /\ PositiveAt(packages[i], "triple") = {l}
             /\ \A o \in StayLocation \ {l} :
                    FeeAt(packages[i], o, "triple") \in {None, Some(0)})
            => /\ InResults(i)
               /\ occupancyAvailable(packages[i], "triple")
               /\ priceForOccupancy(packages[i], "triple")
                    = Some(packages[i].basePriceSAR + majrFee(packages[i])
                           + Val(FeeAt(packages[i], l, "triple")))

\* r is within half a thousandth of the thousandths count n.
RoundsTo(r, n) ==
    LET diff == RSub(RMul(r, <<1000, 1>>), <<n, 1>>)
    IN  RLe(<<-1, 2>>, diff) /\ RLe(diff, <<1, 2>>)

\* C6: for every returned recommendation, totalScore is
\* preferenceMatch*0.6 + valueQuality*0.25 + budgetFit*0.15 - scarcityPenalty
\* of its own breakdown, rounded to 3 decimal places.
C6_TotalIsWeightedSum ==
    \A k \in 1..Len(results) :
        LET b == results[k].breakdown
            weighted ==
                RAdd(RAdd(RAdd(RMul(<<3, 5>>, b.preferenceMatch),
                               RMul(<<1, 4>>, b.valueQuality)),
                          RMul(<<3, 20>>, b.budgetFit)),
                     RNeg(b.scarcityPenalty))
        IN  RoundsTo(weighted, results[k].totalScore)

C6_Witness ==
    /\ calls > 0
    /\ \E k \in 1..Len(results) :
         /\ results[k].breakdown.scarcityPenalty # RZero
         /\ results[k].breakdown.preferenceMatch \notin {RZero, ROne}
         /\ results[k].breakdown.budgetFit \notin {RZero, ROne}
         /\ results[k].totalScore > 0

\* Results k and j are for two records that differ in camp only, k the
\* premium one, both with base price 20000 SAR, scored with no camp
\* preference.
CampTwins(k, j) ==
    /\ results[k].pkg.minaCamp = "majr"
    /\ results[j].pkg.minaCamp = "muaisim"
    /\ [results[k].pkg EXCEPT !.id = 0, !.minaCamp = "muaisim"]
         = [results[j].pkg EXCEPT !.id = 0]
    /\ results[k].pkg.basePriceSAR = 2000000
    /\ ~(TruthyStr(prefs.minaCamp) /\ prefs.minaCamp # "any")

\* C7 as stated: the premium twin's total score is lower than the
\* non-premium twin's by exactly the 0.15 scarcity penalty.
C7_Original ==
    \A k, j \in 1..Len(results) :
        CampTwins(k, j) => results[j].totalScore - results[k].totalScore = 150

\* C7 as amended: the premium twin's scarcity penalty is higher by exactly
\* 0.15, its value score is higher by 0.4/3 and its preference match is the
\* same, so its total is lower by
\* 0.15 - 0.25*(0.4/3) - 0.15*(budgetFit(premium) - budgetFit(non-premium)),
\* up to the rounding of the two totals; it is always the lower one.
C7_PremiumTwin ==
    \A k, j \in 1..Len(results) :
        CampTwins(k, j) =>
            LET bk == results[k].breakdown
                bj == results[j].breakdown
                gap == RSub(RSub(Rat(3, 20), Rat(1, 30)),
                            RMul(Rat(3, 20), RSub(bk.budgetFit, bj.budgetFit)))
                seen == <<results[j].totalScore - results[k].totalScore, 1000>>
                err == RSub(seen, gap)
            IN  /\ RSub(bk.scarcityPenalty, bj.scarcityPenalty) = Rat(3, 20)
                /\ RSub(bk.valueQuality, bj.valueQuality) = Rat(2, 15)
                /\ bk.preferenceMatch = bj.preferenceMatch
                /\ RLe(<<-1, 1000>>, err) /\ RLe(err, <<1, 1000>>)
                /\ results[k].totalScore < results[j].totalScore

C7_Witness ==
    /\ calls > 0
    /\ \E k, j \in 1..Len(results) :
         /\ CampTwins(k, j)
         /\ results[k].breakdown.budgetFit # results[j].breakdown.budgetFit
         /\ prefs.makkahZone = "B"

\* The example of C8: one record with base price 25000 SAR, non-premium
\* camp, nearest proximity, non-shifting, no upgrade fees; preferences with
\* budget 30000 SAR for one person and nothing else set.
ExampleC8 ==
    /\ calls > 0
    /\ Len(packages) = 1
    /\ packages[1].basePriceSAR = 2500000
    /\ packages[1].minaCamp = "muaisim"
    /\ packages[1].makkahZone = "A"
    /\ ~packages[1].isShifting
    /\ packages[1].upgradeFees = None
    /\ prefs = BasePrefs

\* C8 as stated: one recommendation, resolved price 25000, matchRatio 0,
\* budgetScore 0.833, valueScore about 0.333 and total about 0.208.
C8_Original ==
    ExampleC8 =>
        /\ Len(results) = 1
        /\ priceForOccupancy(packages[1], "quad") = Some(2500000)
        /\ results[1].breakdown.preferenceMatch = RZero
        /\ RoundsTo(results[1].breakdown.budgetFit, 833)
        /\ RoundsTo(results[1].breakdown.valueQuality, 333)
        /\ results[1].totalScore = 208

\* C8 as amended: one recommendation, resolved price 25000, matchRatio 0,
\* budgetScore 0.833, and valueScore = (0.6 for the non-premium camp + 1.0
\* for the nearest proximity + 0.2 with two or more stays + 0.15 with a
\* positive flight price) / 3; with two stays and no flight price that is
\* 0.6 and the total is 0.275.
C8_Example ==
    ExampleC8 =>
        /\ Len(results) = 1
        /\ results[1].pkg = packages[1]
        /\ priceForOccupancy(packages[1], "quad") = Some(2500000)
        /\ results[1].breakdown.preferenceMatch = RZero
        /\ results[1].breakdown.budgetFit = Rat(5, 6)
        /\ RoundsTo(results[1].breakdown.budgetFit, 833)
        /\ results[1].breakdown.scarcityPenalty = RZero
        /\ LET stays == IF Len(packages[1].hotels) >= 2 THEN 4 ELSE 0
               flight == IF IsNum(packages[1].flightPriceSAR)
                            /\ Val(packages[1].flightPriceSAR) > 0
                         THEN 3 ELSE 0
               value == Rat(12 + 20 + stays + flight, 60)
           IN  /\ results[1].breakdown.valueQuality = value
               /\ RoundsTo(RAdd(RMul(value, Rat(1, 4)), Rat(1, 8)),
                           results[1].totalScore)
        /\ (Len(packages[1].hotels) = 2 /\ packages[1].flightPriceSAR = None)
             => /\ results[1].breakdown.valueQuality = Rat(3, 5)
                /\ results[1].totalScore = 275

C8_Witness ==
    /\ ExampleC8
    /\ Len(packages[1].hotels) = 2
    /\ packages[1].flightPriceSAR = None
    /\ Len(results) = 1

\* The catalog positions of the candidates the loop does not skip.
Eligible == {i \in 1..Len(packages) : ~Excluded(packages[i], prefs)}

\* The total score the candidate at position i is given.
TotalAt(i) == recommendationFor(packages[i], prefs).totalScore

\* C1: the result is the eligible candidates sorted by total score,
\* descending, cut to the first 5: totals never increase along the list,
\* returned candidates with equal totals are in catalog order, and no
\* eligible candidate that was left out has a total strictly greater than a
\* returned one.
C1_SortedStableTop5 ==
    calls > 0 =>
        /\ Len(results) = IF Cardinality(Eligible) < 5
                          THEN Cardinality(Eligible) ELSE 5
        /\ \A k \in 1..Len(results) :
             /\ results[k].pkg.id \in Eligible
             /\ results[k] = recommendationFor(packages[results[k].pkg.id], prefs)
        /\ \A k, l \in 1..Len(results) :
             k < l =>
               /\ results[k].totalScore >= results[l].totalScore
               /\ results[k].pkg.id # results[l].pkg.id
               /\ results[k].totalScore = results[l].totalScore
                    => results[k].pkg.id < results[l].pkg.id
        /\ \A i \in Eligible :
             ~InResults(i) =>
               \A k \in 1..Len(results) : TotalAt(i) <= results[k].totalScore

C1_Witness ==
    /\ calls > 0
    /\ Len(results) = 5
    /\ Cardinality(Eligible) > 5
    /\ results[1].totalScore > results[2].totalScore
    /\ results[4].totalScore = results[5].totalScore
    /\ results[1].pkg.id > results[2].pkg.id
    /\ \E i \in Eligible : ~InResults(i) /\ TotalAt(i) = results[5].totalScore

\* C2: for every catalog, the empty one and one whose candidates are all
\* excluded included, the call returns a list of at most 5 and at most
\* Len(catalog) recommendations, the empty list when no candidate is
\* eligible.
C2_BoundedOutput ==
    calls > 0 =>
        /\ Len(results) <= 5
        /\ Len(results) <= Len(packages)
        /\ (Eligible = {} => results = <<>>)

C2_Witness ==
    /\ calls > 0
    /\ Len(packages) > 5
    /\ Cardinality(Eligible) > 5
    /\ Len(results) = 5

C2_WitnessEmpty == calls > 0 /\ packages = <<>> /\ results = <<>>

C2_WitnessAllExcluded ==
    calls > 0 /\ Len(packages) > 1 /\ Eligible = {} /\ results = <<>>

C10_NoSideEffects ==
    [][calls' # calls =>
         /\ packages' = packages
         /\ prefs' = prefs
         /\ results' = SubSeq(sortDesc(pushAll(packages, prefs, 1, <<>>)), 1,
                              IF Cardinality(Eligible) < 5
                              THEN Cardinality(Eligible) ELSE 5)]_vars

C10_Witness ==
    /\ calls = 3
    /\ Len(results) = 2
    /\ results[1].pkg.id = 2
    /\ packages[1].id = 1
    /\ log[1].prefs # prefs
    /\ log[1].ret # results
    /\ log[1].ret # <<>>

\* The reason strings of lines 228-235.
StrongMatchNote == "Strong match to your preferences"
PremiumFeeNote == "Majr AlKabsh (includes +4673.42 SAR pp camp upgrade)"
PremiumCapacityNote == "Majr AlKabsh (high quality, very limited capacity)"
CapacityNote == "Al Muaisim (high capacity)"
ShiftingNote == "Shifting structure (often better value)"
BudgetNote == "Close to your target budget"

\* <<x>> when the condition holds, the empty list otherwise.
OnlyIf(cond, xs) == IF cond THEN xs ELSE <<>>

\* C11: the reasons of every recommendation are, in this order: the strong
\* match note iff its preference match is above 0.75; the two premium-camp
\* notices, both and in the same order, iff the camp is majr; the capacity
\* notice iff the camp is muaisim; the shifting note iff the record is
\* shifting; the budget note iff its budget fit is above 0.85.  The total
\* score is a function of the four breakdown values alone.
C11_ReasonsInFixedOrder ==
    \A k \in 1..Len(results) :
        LET r == results[k]
            b == r.breakdown
        IN  /\ r.reasons =
                 OnlyIf(RLt(<<3, 4>>, b.preferenceMatch), <<StrongMatchNote>>)
                 \o OnlyIf(r.pkg.minaCamp = "majr",
                           <<PremiumFeeNote, PremiumCapacityNote>>)
                 \o OnlyIf(r.pkg.minaCamp = "muaisim", <<CapacityNote>>)
                 \o OnlyIf(r.pkg.isShifting, <<ShiftingNote>>)
                 \o OnlyIf(RLt(<<17, 20>>, b.budgetFit), <<BudgetNote>>)
            /\ r.totalScore = toFixed3(totalOf(b.preferenceMatch, b.valueQuality,
                                               b.budgetFit, b.scarcityPenalty))

\* A premium record carrying all five of its possible reasons is returned
\* together with its non-premium twin, which carries the capacity notice and
\* neither the strong match note nor the budget note.
C11_Witness ==
    /\ Len(results) = 2
    /\ \E k, j \in 1..2 :
         /\ results[k].pkg.minaCamp = "majr"
         /\ Len(results[k].reasons) = 5
         /\ results[j].reasons = <<CapacityNote, ShiftingNote>>

\* C12: the stored favourites list never holds more than 5 ids; a toggle of
\* an id that is not in a list of 5 returns ok = false with a message and
\* leaves the stored item as it was; a toggle of an id that is in the list
\* removes it (and nothing else) and returns ok = true.
C12_FavouritesBounded ==
    /\ [](favourites.kind = "json" => Len(favourites.val) <= 5)
    /\ [][ret'.op = "toggleFavourite" =>
            LET ids == getFavouriteIds(favourites)
                after == getFavouriteIds(favourites')
                id == ret'.id
            IN  /\ (includes(ids, id) =>
                      /\ ret'.ok
                      /\ ~includes(after, id)
                      /\ after = SelectSeq(ids, LAMBDA x : x # id))
                /\ (~includes(ids, id) /\ Len(ids) = 5 =>
                      /\ ~ret'.ok
                      /\ ret'.message # Undefined
                      /\ favourites' = favourites)]_vars

\* A toggle of a sixth id has just been refused on a full list.
C12_Witness ==
    /\ ret.op = "toggleFavourite"
    /\ ~ret.ok
    /\ Len(getFavouriteIds(favourites)) = 5
    /\ ~includes(getFavouriteIds(favourites), ret.id)

\* An id has just been removed from a full list.
C12_WitnessRemoved ==
    /\ ret.op = "toggleFavourite"
    /\ ret.ok
    /\ Len(getFavouriteIds(favourites)) = 4
    /\ ~includes(getFavouriteIds(favourites), ret.id)

\* The records of a merged list that carry the id.
RecordsOf(list, id) == SelectSeq(list, LAMBDA p : p.id = id)

\* C13: a mergePackages call leaves the preloaded list it is given as it
\* was, and for every package id whose override was saved (any number of
\* times) and then cleared it returns exactly the preloaded record, the id
\* not counted as edited.
C13_ClearedOverrideRestoresPreloaded ==
    [][ret'.op = "mergePackages" =>
        /\ preloaded' = preloaded
        /\ preloaded' = PreloadedList
        /\ \A i \in 1..Len(preloaded) :
              trail[preloaded[i].id] = "cleared" =>
                /\ RecordsOf(merged'.packages, preloaded[i].id) = <<preloaded[i]>>
                /\ merged'.packages[i] = PreloadedList[i]
                /\ preloaded[i].id \notin merged'.editedIds]_vars

\* The latest call was a merge, made after p1's override was saved and
\* cleared while p2's is still in force.
C13_Witness ==
    /\ ret.op = "mergePackages"
    /\ trail["p1"] = "cleared"
    /\ trail["p2"] = "saved"
    /\ merged.packages[1] = PreloadedList[1]
    /\ merged.packages[2] # PreloadedList[2]
    /\ merged.packages[2].basePriceSAR = 2100000
    /\ merged.editedIds = {"p2"}

\* The sum of the record's fees for the tier over the locations in S.
RECURSIVE SumOver(_, _, _)
SumOver(pkg, tier, S) ==
    IF S = {} THEN 0
    ELSE LET l == CHOOSE x \in S : TRUE
         IN  Val(FeeAt(pkg, l, tier)) + SumOver(pkg, tier, S \ {l})

\* The fixed surcharge of the premium camp.
Surcharge(pkg) == IF pkg.minaCamp = "majr" THEN 467342 ELSE 0

\* C14: for a record with base price > 0, priceForOccupancy is base + camp
\* surcharge (4673.42 for the premium camp, 0 otherwise) for quad; for triple
\* and double it is base + camp surcharge + the sum of that tier's positive
\* fees over the three stay locations, or undefined when that sum is 0.  The
\* budget fit of every returned recommendation is the one of that price.
C14_PriceByTier ==
    /\ \A i \in 1..Len(packages) :
          LET pkg == packages[i]
          IN  pkg.basePriceSAR > 0 =>
                /\ priceForOccupancy(pkg, "quad")
                     = Some(pkg.basePriceSAR + Surcharge(pkg))
                /\ \A tier \in {"triple", "double"} :
                     LET sum == SumOver(pkg, tier, PositiveAt(pkg, tier))
                     IN  priceForOccupancy(pkg, tier)
                           = IF sum = 0 THEN None
                             ELSE Some(pkg.basePriceSAR + Surcharge(pkg) + sum)
    /\ \A k \in 1..Len(results) :
          LET pkg == results[k].pkg
              tier == IF prefs.occupancy \in {"triple", "double"}
                      THEN prefs.occupancy ELSE "quad"
              sum == IF tier = "quad" THEN 0
                     ELSE SumOver(pkg, tier, PositiveAt(pkg, tier))
          IN  results[k].breakdown.budgetFit
                = scoreBudgetFit(pkg.basePriceSAR + Surcharge(pkg) + sum, prefs)

\* A premium record priced for triple is returned: it has a positive fee at
\* makkah, a negative one at madinah and none at aziziya.
C14_Witness ==
    /\ calls > 0
    /\ prefs.occupancy = "triple"
    /\ \E k \in 1..Len(results) :
         LET pkg == results[k].pkg
         IN  /\ pkg.minaCamp = "majr"
             /\ PositiveAt(pkg, "triple") = {"makkah"}
             /\ FeeAt(pkg, "madinah", "triple") = Some(-5000)
             /\ FeeAt(pkg, "aziziya", "triple") = None
             /\ priceForOccupancy(pkg, "triple") = Some(2000000 + 467342 + 600000)

\* The preference fields scorePreferences looks at.
PrefFields ==
    {"provider", "firstStay", "lastStay", "makkahZone", "minaCamp",
     "shifting", "dateWindow", "durationDays"}

\* The fields a preference record sets: a string field that is neither
\* absent (undefined or empty) nor 'any', a date window with both a start
\* and an end, a duration that is a positive number.
SetFields(pr) ==
    {f \in PrefFields \ {"dateWindow", "durationDays"} :
        pr[f] \notin {Undefined, "", "any"}}
    \cup (IF pr.startDate.txt \notin {"undefined", "empty"}
             /\ pr.endDate.txt \notin {"undefined", "empty"}
          THEN {"dateWindow"} ELSE {})
    \cup (IF pr.durationDays # None /\ Val(pr.durationDays) > 0
          THEN {"durationDays"} ELSE {})

\* The block of scorePreferences that handles the field.
FieldStep(f, pkg, pr, acc) ==
    CASE f = "provider" -> AddProvider(pkg, pr, acc)
      [] f = "firstStay" -> AddFirstStay(pkg, pr, acc)
      [] f = "lastStay" -> AddLastStay(pkg, pr, acc)
      [] f = "makkahZone" -> AddZone(pkg, pr, acc)
      [] f = "minaCamp" -> AddCamp(pkg, pr, acc)
      [] f = "shifting" -> AddShifting(pkg, pr, acc)
      [] f = "dateWindow" -> AddDateWindow(pkg, pr, acc)
      [] f = "durationDays" -> AddDuration(pkg, pr, acc)

\* C15: in scorePreferences a field that is not set adds 0 to score and to
\* max, a set field adds exactly 1 to max and a value in [0, 1] to score; so
\* max is the number of set fields, 0 <= score <= max, and the match ratio of
\* every returned recommendation is score/max in [0, 1], or 0 when no field
\* is set.
C15_ScoreWithinMax ==
    /\ \A i \in 1..Len(packages) :
          LET pkg == packages[i]
              zero == [score |-> RZero, max |-> 0]
              sp == scorePreferences(pkg, prefs)
          IN  /\ \A f \in PrefFields :
                    LET step == FieldStep(f, pkg, prefs, zero)
                    IN  IF f \in SetFields(prefs)
                        THEN /\ step.max = 1
                             /\ RLe(RZero, step.score)
                             /\ RLe(step.score, ROne)
                        ELSE step = zero
              /\ sp.max = Cardinality(SetFields(prefs))
              /\ RLe(RZero, sp.score)
              /\ RLe(sp.score, <<sp.max, 1>>)
    /\ \A k \in 1..Len(results) :
          LET sp == scorePreferences(results[k].pkg, prefs)
              ratio == results[k].breakdown.preferenceMatch
          IN  /\ RLe(RZero, ratio) /\ RLe(ratio, ROne)
              /\ SetFields(prefs) = {} => ratio = RZero
              /\ SetFields(prefs) # {} =>
                    RMul(ratio, <<Cardinality(SetFields(prefs)), 1>>) = sp.score

\* A recommendation was returned under preferences that set every field,
\* some matched in part, and its ratio is strictly between 0 and 1.
C15_Witness ==
    /\ calls > 0
    /\ Cardinality(SetFields(prefs)) = 8
    /\ \E k \in 1..Len(results) :
         /\ RLt(RZero, results[k].breakdown.preferenceMatch)
         /\ RLt(results[k].breakdown.preferenceMatch, ROne)

\* A recommendation was returned under preferences that set no field.
C15_WitnessNothingSet ==
    /\ calls > 0
    /\ SetFields(prefs) = {}
    /\ prefs.provider = "any"
    /\ results # <<>>

\* The date window is given and one of the four dates does not parse.
WindowUnparsed(pkg, pr) ==
    /\ "dateWindow" \in SetFields(pr)
    /\ \/ parseISO(pr.startDate) = None
       \/ parseISO(pr.endDate) = None
       \/ parseISO(pkg.startDate) = None
       \/ parseISO(pkg.endDate) = None

\* The preference record without its date window.
NoWindow(pr) == [pr EXCEPT !.startDate = NoDate, !.endDate = NoDate]

\* C16: when the date window is given but a date of the preference or of
\* the record fails to parse, the window adds nothing to score and nothing
\* to max: scorePreferences and the match ratio of the returned
\* recommendation are those of the same preferences without a date window.
C16_UnparsedWindowSkipped ==
    /\ \A i \in 1..Len(packages) :
          WindowUnparsed(packages[i], prefs) =>
              scorePreferences(packages[i], prefs)
                = scorePreferences(packages[i], NoWindow(prefs))
    /\ \A k \in 1..Len(results) :
          WindowUnparsed(results[k].pkg, prefs) =>
              results[k].breakdown.preferenceMatch
                = recommendationFor(results[k].pkg, NoWindow(prefs))
                    .breakdown.preferenceMatch

\* All four dates parse as valid dates.
WindowParses(pkg, pr) ==
    /\ parseISO(pr.startDate) # None
    /\ parseISO(pr.endDate) # None
    /\ parseISO(pkg.startDate) # None
    /\ parseISO(pkg.endDate) # None

\* The date-window score the rule gives: 1 when the record's window lies
\* within the preference's, max(0, 1 - d/14) otherwise, d the smaller of the
\* two distances in days.
WindowScore(pkg, pr) ==
    LET uStart == pr.startDate.day
        uEnd == pr.endDate.day
        pStart == pkg.startDate.day
        pEnd == pkg.endDate.day
        dStart == IF pStart >= uStart THEN pStart - uStart ELSE uStart - pStart
        dEnd == IF pEnd >= uEnd THEN pEnd - uEnd ELSE uEnd - pEnd
        d == IF dStart <= dEnd THEN dStart ELSE dEnd
    IN  IF pStart >= uStart /\ pEnd <= uEnd THEN ROne
        ELSE IF d >= 14 THEN RZero ELSE <<14 - d, 14>>

\* The score the date-window block adds, and the match ratio it gives when
\* the window is the only field set, are WindowScore.
WindowScoreHolds ==
    /\ \A i \in 1..Len(packages) :
          LET step == AddDateWindow(packages[i], prefs,
                                    [score |-> RZero, max |-> 0])
              want == WindowScore(packages[i], prefs)
          IN  step.score[1] * want[2] = want[1] * step.score[2]
    /\ \A k \in 1..Len(results) :
          LET ratio == results[k].breakdown.preferenceMatch
              want == WindowScore(results[k].pkg, prefs)
          IN  SetFields(prefs) = {"dateWindow"} =>
                  ratio[1] * want[2] = want[1] * ratio[2]

\* C17: when the preference window and the record window all parse as
\* valid dates, the date-window score is 1 if record start >= preference
\* start and record end <= preference end, and otherwise max(0, 1 - d/14)
\* with d the minimum, in days, of |record start - preference start| and
\* |record end - preference end|.
C17_WindowScore ==
    (\A i \in 1..Len(packages) : WindowParses(packages[i], prefs))
        => WindowScoreHolds

\* The same, for windows none of whose dates is 1970-01-01 (timestamp 0).
C17_WindowScoreOffEpoch ==
    (\A i \in 1..Len(packages) :
        /\ WindowParses(packages[i], prefs)
        /\ 0 \notin {prefs.startDate.day, prefs.endDate.day,
                      packages[i].startDate.day, packages[i].endDate.day})
        => WindowScoreHolds

\* The place of a proximity tier in the order A, B, C, M.
TierRank(z) ==
    CASE z = "A" -> 0 [] z = "B" -> 1 [] z = "C" -> 2 [] z = "M" -> 3

\* The number of steps between two tiers.
TierDistance(p, a) ==
    IF TierRank(p) >= TierRank(a) THEN TierRank(p) - TierRank(a)
    ELSE TierRank(a) - TierRank(p)

\* C18: for the preferred tier of the preferences and the tier of every
\* record, both among A, B, C, M, zoneScore is 1 - 0.25 * (steps between
\* them): 1 at distance 0, 0.25 less per step, the same in both
\* directions, never negative; it is the match ratio of the returned
\* recommendation when the tier is the only field set.
C18_ZoneScoreByDistance ==
    prefs.makkahZone \in MakkahZone =>
        /\ \A i \in 1..Len(packages) :
              LET p == prefs.makkahZone
                  a == packages[i].makkahZone
                  sc == zoneScore(p, a)
              IN  /\ sc[1] * 4 = (4 - TierDistance(p, a)) * sc[2]
                  /\ TierDistance(p, a) = 0 => sc = ROne
                  /\ sc = zoneScore(a, p)
                  /\ RLe(RZero, sc)
                  /\ \A b \in MakkahZone :
                        TierDistance(p, b) = TierDistance(p, a) + 1 =>
                            RSub(sc, zoneScore(p, b)) = <<1, 4>>
        /\ \A k \in 1..Len(results) :
              LET ratio == results[k].breakdown.preferenceMatch
                  d == TierDistance(prefs.makkahZone, results[k].pkg.makkahZone)
              IN  SetFields(prefs) = {"makkahZone"} =>
                      ratio[1] * 4 = (4 - d) * ratio[2]

\* A record of tier M was scored for a preferred tier A: three steps, 0.25.
C18_Witness ==
    /\ calls > 0
    /\ prefs.makkahZone = "A"
    /\ \E k \in 1..Len(results) :
         /\ results[k].pkg.makkahZone = "M"
         /\ results[k].breakdown.preferenceMatch = <<1, 4>>

\* Math.max(1, headcount), and the price a recommendation was scored for
\* (quad: no occupancy is requested in SpecBudget).
Heads(pr) == IF pr.hujjajCount >= 1 THEN pr.hujjajCount ELSE 1
PriceOf(r) == Val(priceForOccupancy(r.pkg, "quad"))

\* The price compared with the per-person target budgetAmount / Heads.
AtMostTarget(price, pr) == price * Heads(pr) <= pr.budgetAmount
AtLeastTarget(price, pr) == price * Heads(pr) >= pr.budgetAmount
AtLeastTwiceTarget(price, pr) == price * Heads(pr) >= 2 * pr.budgetAmount

\* C19: for a per-person target > 0 the budget fit is non-decreasing in the
\* price and at least 0.6 from price 0 up to the target, 1 at the target,
\* non-increasing beyond it, 0 from twice the target on, and always within
\* [0, 1].
C19_BudgetFitShape ==
    (prefs.budgetAmount > 0) =>
        \A k \in 1..Len(results) :
            LET fit == results[k].breakdown.budgetFit
                price == PriceOf(results[k])
            IN  /\ RLe(RZero, fit) /\ RLe(fit, ROne)
                /\ AtMostTarget(price, prefs) =>
                      /\ RLe(<<3, 5>>, fit)
                      /\ RLe(<<3, 5>>, scoreBudgetFit(0, prefs))
                      /\ RLe(scoreBudgetFit(0, prefs), fit)
                /\ (AtMostTarget(price, prefs) /\ AtLeastTarget(price, prefs))
                      => fit = ROne
                /\ AtLeastTwiceTarget(price, prefs) => fit = RZero
                /\ \A j \in 1..Len(results) :
                      LET fitJ == results[j].breakdown.budgetFit
                          priceJ == PriceOf(results[j])
                      IN  /\ (price <= priceJ /\ AtMostTarget(priceJ, prefs))
                                => RLe(fit, fitJ)
                          /\ (AtLeastTarget(price, prefs) /\ price <= priceJ)
                                => RLe(fitJ, fit)

\* Two recommendations were scored for a positive target, one priced below
\* it and above the floor, one between the target and its double.
C19_Witness ==
    /\ calls > 0
    /\ prefs.budgetAmount > 0
    /\ \E k, j \in 1..Len(results) :
         /\ results[k].breakdown.budgetFit = <<4, 5>>
         /\ PriceOf(results[k]) = 1600000
         /\ results[j].breakdown.budgetFit = <<1, 2>>
         /\ PriceOf(results[j]) = 3000000

\* C20: the per-person target is budgetAmount / max(1, hujjajCount): the
\* budget fit under a headcount of 0 or less is the one under a headcount of
\* 1, the fit for a positive target is max(0.6, price/target) up to the
\* target and max(0, 1 - (price/target - 1)) beyond it, and the fit is 0 for
\* every price when the target is 0 or less.
C20_TargetPerPerson ==
    \A k \in 1..Len(results) :
        LET fit == results[k].breakdown.budgetFit
            price == PriceOf(results[k])
            one == [prefs EXCEPT !.hujjajCount = 1]
        IN  /\ prefs.hujjajCount <= 0 => fit = scoreBudgetFit(price, one)
            /\ prefs.budgetAmount <= 0 => fit = RZero
            /\ prefs.budgetAmount > 0 =>
                  LET n == price * Heads(prefs)
                      b == prefs.budgetAmount
                  IN  IF n <= b
                      THEN IF 5 * n <= 3 * b THEN fit = <<3, 5>>
                           ELSE fit[1] * b = n * fit[2]
                      ELSE IF n >= 2 * b THEN fit = RZero
                           ELSE fit[1] * b = (2 * b - n) * fit[2]

\* A recommendation was scored for a positive budget and a headcount below
\* 1, at a price above the floor.
C20_Witness ==
    /\ calls > 0
    /\ prefs.hujjajCount = -2
    /\ prefs.budgetAmount = 2000000
    /\ \E k \in 1..Len(results) :
         /\ PriceOf(results[k]) = 1600000
         /\ results[k].breakdown.budgetFit = <<4, 5>>

\* Recommendations were scored for a budget of 0 or less.
C20_WitnessNoTarget ==
    /\ calls > 0
    /\ prefs.budgetAmount < 0
    /\ Len(results) = 2

\* The value points of a record, in hundredths: camp, proximity tier,
\* shifting, at least two stays, a positive flight price.
ValuePoints(pkg) ==
    (IF pkg.minaCamp = "majr" THEN 100
     ELSE IF pkg.minaCamp = "muaisim" THEN 60 ELSE 0)
    + (CASE pkg.makkahZone = "A" -> 100 [] pkg.makkahZone = "B" -> 70
         [] pkg.makkahZone = "C" -> 40 [] pkg.makkahZone = "M" -> 20)
    + (IF pkg.isShifting THEN 50 ELSE 0)
    + (IF Len(pkg.hotels) >= 2 THEN 20 ELSE 0)
    + (IF pkg.flightPriceSAR # None /\ Val(pkg.flightPriceSAR) > 0
       THEN 15 ELSE 0)

\* Preference records other than the one in force: nothing set, and nothing
\* set with a budget of 0.
OtherPrefs == {BasePrefs, [BasePrefs EXCEPT !.budgetAmount = 0]}

\* C21: the valueQuality of every returned recommendation is min(sum/3, 1),
\* sum being 1.0 (majr) or 0.6 (muaisim), plus 1.0 / 0.7 / 0.4 / 0.2 for
\* tier A / B / C / M, plus 0.5 if shifting, plus 0.2 for at least 2 stays,
\* plus 0.15 for a positive flight price; it lies in [0, 1] and is the value
\* the record gets under any other preference record.
C21_ValueQuality ==
    \A k \in 1..Len(results) :
        LET v == results[k].breakdown.valueQuality
            pts == ValuePoints(results[k].pkg)
        IN  /\ v[1] * 300 = (IF pts >= 300 THEN 300 ELSE pts) * v[2]
            /\ RLe(RZero, v) /\ RLe(v, ROne)
            /\ \A pr \in OtherPrefs :
                  recommendationFor(results[k].pkg, pr).breakdown.valueQuality = v

\* A premium shifting record of tier A with three stays and a flight price
\* was scored (2.85 / 3 = 0.95), under preferences that set a tier and a
\* date window.
C21_Witness ==
    /\ calls > 0
    /\ prefs.makkahZone = "B"
    /\ prefs.durationDays # None
    /\ \E k \in 1..Len(results) :
         /\ ValuePoints(results[k].pkg) = 285
         /\ results[k].breakdown.valueQuality = <<19, 20>>

\* C22: the scarcityPenalty of every returned recommendation is 0.15 when
\* the record's camp is majr and 0 otherwise; it is never negative and is the
\* value the record gets under any other preference record.
C22_ScarcityPenalty ==
    \A k \in 1..Len(results) :
        LET sp == results[k].breakdown.scarcityPenalty
        IN  /\ results[k].pkg.minaCamp = "majr" => sp = <<3, 20>>
            /\ results[k].pkg.minaCamp # "majr" => sp = <<0, 1>>
            /\ sp[1] >= 0
            /\ \A pr \in OtherPrefs :
                  recommendationFor(results[k].pkg, pr).breakdown.scarcityPenalty
                    = sp

\* Both camps were scored in one call, under a camp preference.
C22_Witness ==
    /\ calls > 0
    /\ prefs.minaCamp = "majr"
    /\ \E k, j \in 1..Len(results) :
         /\ results[k].pkg.minaCamp = "majr"
         /\ results[k].breakdown.scarcityPenalty = <<3, 20>>
         /\ results[j].pkg.minaCamp = "muaisim"
         /\ results[j].breakdown.scarcityPenalty = <<0, 1>>

\* The catalog with the records at positions i and j exchanged, without the
\* record at position i, and with the record x added at the end.
Exchanged(pk, i, j) ==
    [k \in 1..Len(pk) |-> IF k = i THEN pk[j] ELSE IF k = j THEN pk[i] ELSE pk[k]]
Without(pk, i) == SubSeq(pk, 1, i - 1) \o SubSeq(pk, i + 1, Len(pk))
With(pk, x) == Append(pk, [x EXCEPT !.id = Len(pk) + 1])

\* The pairs of different positions of the catalog.
Pairs == {q \in (1..Len(packages)) \X (1..Len(packages)) : q[1] < q[2]}

\* The catalogs obtained from the current one by one such change.
Rearranged ==
    {Exchanged(packages, q[1], q[2]) : q \in Pairs}
    \cup {Without(packages, i) : i \in 1..Len(packages)}
    \cup {With(packages, x) : x \in RankingShapes}

\* The recommendation a record gets when it is the whole catalog (<<>> when
\* it is not eligible).
Alone(pkg) == recommendPackages(<<pkg>>, prefs)

\* The totals along a result list.
TotalsOf(rs) == [k \in 1..Len(rs) |-> rs[k].totalScore]

\* The number of records of the catalog that are eligible with a total of
\* at least t.
AtLeast(pk, t) ==
    Cardinality({i \in 1..Len(pk) :
                    /\ Alone(pk[i]) # <<>>
                    /\ Alone(pk[i])[1].totalScore >= t})

\* C23: every returned recommendation is the one its record gets as the
\* only record of the catalog, and a record is left out only if it is not
\* eligible alone or the shortlist is full; this stays so when two records
\* are exchanged, one is removed or one is added.  Exchanging two records
\* leaves the totals along the result as they were, and every returned
\* recommendation whose total is not tied across the cut at 5 is returned
\* again.
C23_PerRecord ==
    calls > 0 =>
        /\ \A c \in {packages} \cup Rearranged :
              LET rs == recommendPackages(c, prefs)
              IN  /\ \A k \in 1..Len(rs) : <<rs[k]>> = Alone(rs[k].pkg)
                  /\ \A i \in 1..Len(c) :
                        LET returned == \E k \in 1..Len(rs) : rs[k].pkg = c[i]
                        IN  /\ returned => Alone(c[i]) # <<>>
                            /\ (/\ Alone(c[i]) # <<>>
                                /\ AtLeast(c, Alone(c[i])[1].totalScore) <= TOP_N)
                                  => returned
        /\ \A q \in Pairs :
              LET rs == recommendPackages(Exchanged(packages, q[1], q[2]), prefs)
              IN  /\ TotalsOf(rs) = TotalsOf(results)
                  /\ \A k \in 1..Len(results) :
                        AtLeast(packages, results[k].totalScore) <= TOP_N
                          => \E m \in 1..Len(rs) : rs[m] = results[k]

\* Six eligible records of two different totals were ranked, three of each:
\* the cut at 5 falls among records of equal total.
C23_Witness ==
    /\ calls > 0
    /\ Len(packages) = 6
    /\ Len(results) = 5
    /\ results[1].totalScore > results[5].totalScore
    /\ AtLeast(packages, results[1].totalScore) = 3
    /\ packages[1].makkahZone # packages[2].makkahZone
(***************************************************************************)
(* C26.  On the recommendations screen, the per-person price shown for     *)
(* every recommendation (base price + Majr fee + the upgrade sum of the    *)
(* tier of the current preferences) equals the price priceForOccupancy     *)
(* resolved for that record when it was scored, after any sequence of      *)
(* preference changes and 'Get recommendations' runs.                      *)
(***************************************************************************)
\* The price resolved for a shown recommendation by the run that produced
\* the results on screen.
ScoredPrice(r) == Val(priceForOccupancy(r.pkg, occFor(log[Len(log)].prefs)))

C26_ShownPriceIsScoredPrice ==
    \A k \in 1..Len(results) : perPerson(results[k], prefs) = ScoredPrice(results[k])

\* Right after a run the two prices agree, for a tier with upgrade fees.
C26_FreshRun ==
    (results # <<>> /\ occFor(log[Len(log)].prefs) = occupancyLabel(prefs))
        => \A k \in 1..Len(results) :
              perPerson(results[k], prefs) = ScoredPrice(results[k])

(***************************************************************************)
(* C24.  After any sequence of XLSX load, CSV import, Add-package and      *)
(* Edit-package operations, every package of the merged catalog has the    *)
(* stay list of its kind: madinah, makkah, aziziya when shifting, and      *)
(* madinah, makkah when not.                                               *)
(***************************************************************************)
StayListOf(p) ==
    IF p.isShifting THEN <<"madinah", "makkah", "aziziya">>
    ELSE <<"madinah", "makkah">>

C24_StayListInvariant ==
    \A i \in 1..Len(merged.packages) :
        merged.packages[i].hotels = StayListOf(merged.packages[i])

\* The list holds shifting and non-shifting packages from the sheet and from
\* the user, and an edit that changed the kind of a preloaded package.
C24_Witness ==
    /\ \E i, j \in 1..Len(merged.packages) :
          /\ merged.packages[i].source = "preloaded"
          /\ merged.packages[j].source = "user"
          /\ merged.packages[j].isShifting
    /\ ret.op = "save"
    /\ \E i \in 1..Len(preloaded) :
          /\ preloaded[i].id = ret.id
          /\ preloaded[i].isShifting # ret.override.isShifting

(***************************************************************************)
(* C25.  After any sequence of preloaded load, CSV import and Add-package  *)
(* operations, no two packages of the merged list (the list handed to      *)
(* recommendPackages) have the same dedupe key: provider, package name,    *)
(* start date and end date, each trimmed and lower-cased.                  *)
(***************************************************************************)
C25_MergedListDeduplicated ==
    \A i, j \in 1..Len(merged.packages) :
        packageDedupeKey(merged.packages[i]) = packageDedupeKey(merged.packages[j])
            => i = j

\* What the import does ensure: a file never adds a second copy of a key
\* to the stored user packages.
C25_ImportAddsNoKeyTwice ==
    [][csv # NoImport /\ csv' = NoImport =>
          \A k \in getUserPackageKeySet(userPackages') :
              Cardinality({i \in 1..Len(getUserPackages(userPackages')) :
                              packageDedupeKey(getUserPackages(userPackages')[i]) = k})
                <= IF k \in getUserPackageKeySet(userPackages)
                   THEN Cardinality({i \in 1..Len(getUserPackages(userPackages)) :
                              packageDedupeKey(getUserPackages(userPackages)[i]) = k})
                   ELSE 1]_vars

(***************************************************************************)
(* C27.  After the Edit form is saved on any package of the merged list,   *)
(* preloaded or user-added, the list the next mergePackages call returns   *)
(* holds that package with the field values that were saved.               *)
(***************************************************************************)
\* The fees an optional fee table grants: none when it is absent.
FeesOf(fees) ==
    [l \in StayLocation |->
        [t \in {"double", "triple"} |->
            IF fees = None THEN None ELSE fees[1][l][t]]]

\* The package shows the saved value of the key.
Shows(p, k, v) ==
    IF k = "upgradeFees"
    THEN FeesOf(IF k \in DOMAIN p THEN p[k] ELSE None) = FeesOf(v)
    ELSE k \in DOMAIN p /\ p[k] = v

\* The merged list holds the package with every value of the override.
ShownAsSaved(id, override) ==
    \E i \in 1..Len(merged.packages) :
        /\ merged.packages[i].id = id
        /\ \A k \in DOMAIN override : Shows(merged.packages[i], k, override[k])

C27_SavedEditIsMerged ==
    ret.op = "save" => ShownAsSaved(ret.id, ret.override)

\* What does hold: the edit of a preloaded package is shown, unless it
\* removed the package's upgrade fees.
C27_PreloadedEditIsMerged ==
    (/\ ret.op = "save"
     /\ \E i \in 1..Len(preloaded) : preloaded[i].id = ret.id
     /\ ret.override.upgradeFees # None)
        => ShownAsSaved(ret.id, ret.override)

(***************************************************************************)
(* C28.  Once the preloaded load has completed with packages, the merged   *)
(* list the App holds contains every preloaded package with its override   *)
(* applied, under every interleaving of the load with a CSV import that    *)
(* was started before the load finished and resumes after it: no later     *)
(* refresh builds the list from the older, empty preloaded list.           *)
(***************************************************************************)
\* The preloaded packages as a merge of the current state shows them.
PreloadedAsMerged == mergedPreloaded(preloaded, getPackageOverrides(overrides))

C28_MergedKeepsPreloaded ==
    (~loadingPackages /\ preloaded # <<>>)
        => \A i \in 1..Len(preloaded) :
              \E j \in 1..Len(merged.packages) :
                  merged.packages[j] = PreloadedAsMerged[i]

\* What does hold: the list keeps the preloaded packages whenever the
\* latest handler was the load itself, an Add, a save or a reset.
C28_KeptWithoutStaleImport ==
    (~loadingPackages /\ preloaded # <<>>
        /\ ret.op \in {"load", "add", "save", "reset"})
        => \A i \in 1..Len(preloaded) :
              \E j \in 1..Len(merged.packages) :
                  merged.packages[j] = PreloadedAsMerged[i]

(***************************************************************************)
(* C29.  CSV import is all-or-nothing: when importTemplateCsv reports at   *)
(* least one row error, handleCsvFile stores no package, so the stored     *)
(* user packages and the merged list are unchanged even though other rows  *)
(* of the file are valid.                                                  *)
(***************************************************************************)
C29_ImportAllOrNothing ==
    [][(csv # NoImport /\ csv' = NoImport
          /\ importTemplateCsv(csv.file, 0).errors # <<>>)
        => (userPackages' = userPackages /\ merged' = merged)]_vars

\* An import of a file with a valid and an invalid row has returned, with
\* the load finished in between and a package added before.
C29_Witness ==
    /\ ret.op = "handleCsvFile"
    /\ ret.errors > 0
    /\ ret.parsed > 0
    /\ preloaded # <<>>
    /\ getUserPackages(userPackages) # <<>>

(***************************************************************************)
(* C30.  For every package the XLSX loader, the CSV importer and the Add   *)
(* form produce, the city of the first stay entry equals the package's     *)
(* firstCity, so that the first-stay preference scores 1 exactly for the   *)
(* packages whose firstCity is the preferred location.                     *)
(***************************************************************************)
\* The packages the three producers have delivered: the preloaded list and
\* the stored user packages (an edit changes neither).
Produced == preloaded \o getUserPackages(userPackages)

\* The first-stay preference scores 1 for the package.
FirstStayMatches(p, city) ==
    AddFirstStay(p, [BasePrefs EXCEPT !.firstStay = city],
                 [score |-> RZero, max |-> 0]).score = ROne

C30_FirstStayIsFirstCity ==
    \A i \in 1..Len(Produced) :
        /\ Produced[i].hotels[1] = Produced[i].firstCity
        /\ \A city \in StayLocation :
              FirstStayMatches(Produced[i], city) <=> Produced[i].firstCity = city

\* What does hold: the first stay entry is Madinah, whatever firstCity is.
C30_FirstStayIsMadinah ==
    \A i \in 1..Len(Produced) :
        \A city \in StayLocation :
            FirstStayMatches(Produced[i], city) <=> city = "madinah"

====
